---- MODULE Spec2Model ----
(***************************************************************************)
(* Model of the auto-node synchronization engine of src/src/main.ts:       *)
(* keyword matching, the merge of the generated section, the registry of   *)
(* auto-node records, the debounced refresh timer and the refresh passes.  *)
(*                                                                         *)
(* Texts are sequences of tokens.  A token is either one character (a      *)
(* letter, a space, a newline, a colon) or one of the fixed literals of    *)
(* the program (a marker, the intro heading, ...), which no concatenation  *)
(* of the other tokens can produce:                                        *)
(*   "S"  <!-- auto-node:start -->      "s"  a case/whitespace variant     *)
(*   "E"  <!-- auto-node:end -->        "e"  a case/whitespace variant     *)
(*   "KA" <!-- Auto-node keyword:       "ka" a case/whitespace variant     *)
(*   "KZ" -->  closing an annotation    "kz" the same without the space    *)
(*   "H"  # Auto Node                   "B"  the rest of the intro block   *)
(*   "D3" ---                           "Y1","Y2" lines of a YAML block    *)
(*   "P"  _No matching notes yet._      "LB","RB" [[ and ]]                *)
(*   "C"  _Collecting links..._                                            *)
(*   "DASH" -      "MD" .md     "SP" space     "NL" newline    "CL" :      *)
(* The letters j q x z (J Q X Z) are letters that occur in no literal.     *)
(***************************************************************************)
EXTENDS Integers, Sequences, FiniteSets, TLC

\* ------------------------------------------------------------------------
\* Strings
\* ------------------------------------------------------------------------

AUTO_NODE_MARKER_START == "S"
AUTO_NODE_MARKER_END == "E"
AUTO_NODE_INTRO == <<"H", "NL", "B", "NL">>
IntroHeading == <<"H">>
Placeholder == <<"P">>

LowerLetters == {"j", "q", "x", "z"}
UpperLetters == {"J", "Q", "X", "Z"}

\* JavaScript whitespace (String.prototype.trim*, \s)
IsSpace(t) == t \in {"SP", "NL"}

RECURSIVE trimEnd(_)
trimEnd(s) ==
  IF s = <<>> THEN <<>>
  ELSE IF IsSpace(s[Len(s)]) THEN trimEnd(SubSeq(s, 1, Len(s) - 1))
  ELSE s

RECURSIVE trimStart(_)
trimStart(s) ==
  IF s = <<>> THEN <<>>
  ELSE IF IsSpace(s[1]) THEN trimStart(Tail(s))
  ELSE s

trim(s) == trimStart(trimEnd(s))

\* String.prototype.indexOf for a pattern; 0 stands for -1, positions are 1-based
indexOfSeq(s, pat) ==
  LET hits == {i \in 1..(Len(s) - Len(pat) + 1) : SubSeq(s, i, i + Len(pat) - 1) = pat}
  IN IF hits = {} THEN 0 ELSE CHOOSE i \in hits : \A k \in hits : i <= k

indexOf(s, tok) == indexOfSeq(s, <<tok>>)

includes(s, pat) == indexOfSeq(s, pat) # 0

\* s.slice(from) with a 1-based from
sliceFrom(s, from) == SubSeq(s, from, Len(s))

RECURSIVE join(_, _)
join(lines, sep) ==
  IF lines = <<>> THEN <<>>
  ELSE IF Len(lines) = 1 THEN lines[1]
  ELSE lines[1] \o sep \o join(Tail(lines), sep)

\* ------------------------------------------------------------------------
\* SectionMerger: normalizeMarkers, ensureIntroSection, mergeGeneratedSection
\* ------------------------------------------------------------------------

\* Tokens the regex /<!--\s*auto-node keyword:[^>]*-->/gi starts a match at
AnnotationOpeners == {"KA", "ka"}
\* Tokens without ">" that the texts of the model put inside an annotation
AnnotationInner == LowerLetters \cup UpperLetters \cup {"SP", "CL"}

\* Position of the "-->" closing the annotation opened at s[1], 0 when the
\* tokens after the opener are not annotation text followed by "-->"
annotationEnd(s) ==
  LET stops == {j \in 2..Len(s) : s[j] \notin AnnotationInner}
  IN IF stops = {} THEN 0
     ELSE LET j == CHOOSE i \in stops : \A k \in stops : i <= k
          IN IF s[j] = "KZ" THEN j ELSE 0

\* match.split(":")[1]?.replace("-->", "").trim(): the opener ends with the
\* first colon, so element 1 is the text up to the next colon (or the end)
annotationKeyword(inner) ==
  LET c == indexOf(inner, "CL")
  IN trim(IF c = 0 THEN inner ELSE SubSeq(inner, 1, c - 1))

canonicalAnnotation(keyword) == <<"KA", "SP">> \o keyword \o <<"SP", "KZ">>

RECURSIVE normalizeAnnotations(_)
normalizeAnnotations(s) ==
  IF s = <<>> THEN <<>>
  ELSE IF s[1] \in AnnotationOpeners /\ annotationEnd(s) # 0
    THEN LET j == annotationEnd(s)
         IN canonicalAnnotation(annotationKeyword(SubSeq(s, 2, j - 1)))
              \o normalizeAnnotations(sliceFrom(s, j + 1))
    ELSE <<s[1]>> \o normalizeAnnotations(Tail(s))

\* Mutant of normalizeMarkerToken: only the start marker is rewritten
normalizeMarkerToken_startOnly(t) ==
  IF t = "s" THEN AUTO_NODE_MARKER_START ELSE t

normalizeMarkerToken(t) ==
  IF t = "s" THEN AUTO_NODE_MARKER_START
  ELSE IF t = "e" THEN AUTO_NODE_MARKER_END
  ELSE t

normalizeMarkers(content) ==
  LET annotated == normalizeAnnotations(content)
  IN [i \in 1..Len(annotated) |-> normalizeMarkerToken(annotated[i])]

\* Length of the match of /^---[\s\S]*?\n---\n?/ at the start of content, 0 if none
frontmatterMatch(content) ==
  IF Len(content) < 3 \/ content[1] # "D3" THEN 0
  ELSE LET ends == {j \in 2..(Len(content) - 1) :
                       content[j] = "NL" /\ content[j + 1] = "D3"}
       IN IF ends = {} THEN 0
          ELSE LET j == CHOOSE i \in ends : \A k \in ends : i <= k
               IN IF Len(content) >= j + 2 /\ content[j + 2] = "NL"
                    THEN j + 2 ELSE j + 1

ensureIntroSection(content) ==
  IF includes(content, IntroHeading) THEN content
  ELSE LET m == frontmatterMatch(content) IN
    IF m # 0
      THEN LET frontmatter == SubSeq(content, 1, m)
               rest == trimStart(sliceFrom(content, m + 1))
               body == IF rest # <<>> THEN <<"NL">> \o rest ELSE <<>>
           IN trimEnd(frontmatter \o AUTO_NODE_INTRO \o body) \o <<"NL">>
      ELSE LET trimmed == trimStart(content)
           IN IF trimmed = <<>> THEN AUTO_NODE_INTRO
              ELSE AUTO_NODE_INTRO \o <<"NL">> \o trimmed

\* Mutant of appendMarkers: no marker pair is appended
appendMarkers_never(next) == next

\* Lines 376-384: append a marker pair when one of the markers is absent
appendMarkers(next) ==
  IF ~includes(next, <<AUTO_NODE_MARKER_START>>)
       \/ ~includes(next, <<AUTO_NODE_MARKER_END>>)
    THEN join(<<trimEnd(next), <<>>, <<AUTO_NODE_MARKER_START>>,
                <<AUTO_NODE_MARKER_END>>, <<>> >>, <<"NL">>)
    ELSE next

lastIndexOf(s, tok) ==
  LET hits == {i \in 1..Len(s) : s[i] = tok}
  IN IF hits = {} THEN 0 ELSE CHOOSE i \in hits : \A k \in hits : i >= k

\* Mutant of replaceSection: the end marker is searched from the end of the text
replaceSection_lastEnd(next, generated) ==
  LET startIndex == indexOf(next, AUTO_NODE_MARKER_START)
      endIndex == lastIndexOf(next, AUTO_NODE_MARKER_END)
  IN IF startIndex = 0 \/ endIndex = 0 \/ endIndex < startIndex THEN next
     ELSE LET before == SubSeq(next, 1, startIndex)
              after == sliceFrom(next, endIndex)
          IN trimEnd(before \o <<"NL", "NL">> \o generated \o <<"NL", "NL">>
                       \o trimStart(after)) \o <<"NL">>

\* Lines 386-396: replace what lies between the first start and the first end
replaceSection(next, generated) ==
  LET startIndex == indexOf(next, AUTO_NODE_MARKER_START)
      endIndex == indexOf(next, AUTO_NODE_MARKER_END)
  IN IF startIndex = 0 \/ endIndex = 0 \/ endIndex < startIndex THEN next
     ELSE LET before == SubSeq(next, 1, startIndex)
              after == sliceFrom(next, endIndex)
          IN trimEnd(before \o <<"NL", "NL">> \o generated \o <<"NL", "NL">>
                       \o trimStart(after)) \o <<"NL">>

\* The keyword parameter is not used by the code
mergeGeneratedSection(current, generated, keyword) ==
  replaceSection(appendMarkers(ensureIntroSection(normalizeMarkers(current))),
                 generated)

\* ------------------------------------------------------------------------
\* Inputs of mergeGeneratedSection: texts built from at most MaxSegs segments
\* ------------------------------------------------------------------------

MaxSegs == 4

FrontmatterBlock(keyword) ==
  <<"D3", "NL", "Y1">> \o keyword \o <<"NL", "Y2", "NL", "D3", "NL">>

\* Plain text, a newline, the markers (canonical and a variant of each), the
\* intro heading, a frontmatter block and a legacy keyword annotation with a
\* colon
Segments ==
  { <<"x">>, <<"NL">>, <<"S">>, <<"s">>, <<"E">>, <<"e">>, <<"H">>,
    FrontmatterBlock(<<"x">>),
    <<"ka", "x", "CL", "z", "KZ">> }

RECURSIVE concat(_)
concat(segs) == IF segs = <<>> THEN <<>> ELSE segs[1] \o concat(Tail(segs))

MergeTexts ==
  UNION { {concat(f) : f \in [1..n -> Segments]} : n \in 0..MaxSegs }

\* Generated bodies as refreshAutoNode renders them (lines 338-340)
MergeBodies == { Placeholder, <<"DASH", "SP", "LB", "x", "RB">> }

VARIABLES mergeCount, mergeInput, mergeGenerated, mergePrev, mergeOut

mergeVars == <<mergeCount, mergeInput, mergeGenerated, mergePrev, mergeOut>>

\* A call of one of the other pure functions: its arguments and its result
VARIABLES pureCall

pureVars == <<mergeVars, pureCall>>

NoCall == [fn |-> "none"]

MergeInit ==
  /\ mergeCount = 0
  /\ mergeInput \in MergeTexts
  /\ mergeGenerated \in MergeBodies
  /\ mergePrev = <<>>
  /\ mergeOut = mergeInput

\* C2: merge(merge(T, G, k), G, k) = merge(T, G, k) for every text T
C2_MergeIdempotent == mergeCount = 2 => mergeOut = mergePrev

\* Markers as they are recognized on read: canonical or variant
IsStartMarker(t) == t \in {"S", "s"}
IsEndMarker(t) == t \in {"E", "e"}

firstStart(s) ==
  LET hits == {i \in 1..Len(s) : IsStartMarker(s[i])}
  IN IF hits = {} THEN 0 ELSE CHOOSE i \in hits : \A k \in hits : i <= k

firstEnd(s) ==
  LET hits == {i \in 1..Len(s) : IsEndMarker(s[i])}
  IN IF hits = {} THEN 0 ELSE CHOOSE i \in hits : \A k \in hits : i <= k

\* The text has a start marker and its first end marker comes after it
MarkersInOrder(s) ==
  /\ firstStart(s) # 0
  /\ firstStart(s) < firstEnd(s)

contentBefore(s) == SubSeq(s, 1, firstStart(s) - 1)
contentAfter(s) == sliceFrom(s, firstEnd(s) + 1)

HasText(s) == includes(s, <<"x">>)

toLowerCaseToken(t) ==
  CASE t = "J" -> "j" [] t = "Q" -> "q" [] t = "X" -> "x" [] t = "Z" -> "z"
    [] t = "SS" -> "ss"
    [] t = "H" -> "h" [] t = "B" -> "b" [] t = "P" -> "p" [] t = "C" -> "c"
    [] t = "KA" -> "kal" [] t = "Y1" -> "y1" [] t = "Y2" -> "y2"
    [] OTHER -> t

toLowerCase(s) == [i \in 1..Len(s) |-> toLowerCaseToken(s[i])]

\* String.prototype.toUpperCase on letters, the sharp s and whitespace
toUpperCaseToken(t) ==
  CASE t = "j" -> "J" [] t = "q" -> "Q" [] t = "x" -> "X" [] t = "z" -> "Z"
    [] t = "sz" -> "SS" [] t = "ss" -> "SS"
    [] OTHER -> t

toUpperCase(s) == [i \in 1..Len(s) |-> toUpperCaseToken(s[i])]

\* \w at the first and at the last character of a token
WordAtStart(t) ==
  t \in LowerLetters \cup UpperLetters
        \cup {"P", "p", "C", "c", "B", "b", "Y1", "y1", "Y2", "y2", "SS", "ss"}
WordAtEnd(t) ==
  t \in LowerLetters \cup UpperLetters
        \cup {"P", "p", "C", "c", "B", "b", "H", "h", "MD", "Y2", "y2",
              "SS", "ss"}

\* \b between position i and i + 1 of s (0 and Len(s) are the ends)
wordBoundary(s, i) ==
  LET left == i >= 1 /\ WordAtEnd(s[i])
      right == i < Len(s) /\ WordAtStart(s[i + 1])
  IN left # right

\* Mutant of regexTest: the keyword is searched without the \b assertions
regexTest_noBoundary(keyword, ignoreCase, s) ==
  \E i \in 1..(Len(s) - Len(keyword) + 1) :
    LET found == SubSeq(s, i, i + Len(keyword) - 1)
    IN IF ignoreCase THEN toLowerCase(found) = toLowerCase(keyword)
                     ELSE found = keyword

\* new RegExp(`\\b${escaped}\\b`, flags).test(s): escaping makes the keyword a
\* literal; flag i compares without case
regexTest(keyword, ignoreCase, s) ==
  \E i \in 1..(Len(s) - Len(keyword) + 1) :
    LET found == SubSeq(s, i, i + Len(keyword) - 1)
    IN /\ IF ignoreCase THEN toLowerCase(found) = toLowerCase(keyword)
                        ELSE found = keyword
       /\ wordBoundary(s, i - 1)
       /\ wordBoundary(s, i + Len(keyword) - 1)

\* TFile.basename of a note with TFile.path path: what follows the last slash
\* ("SL"), without the extension
basenameOf(path) == SubSeq(path, lastIndexOf(path, "SL") + 1, Len(path) - 1)

\* Mutant of containsKeyword: only the body is searched
containsKeyword_bodyOnly(path, content, config) ==
  LET keyword == IF config.caseSensitive THEN config.keyword
                 ELSE toLowerCase(config.keyword)
      haystack == IF config.caseSensitive THEN content ELSE toLowerCase(content)
  IN IF ~config.matchWholeWord
       THEN includes(haystack, keyword)
       ELSE regexTest_noBoundary(keyword, ~config.caseSensitive, content)

containsKeyword(path, content, config) ==
  LET keyword == IF config.caseSensitive THEN config.keyword
                 ELSE toLowerCase(config.keyword)
      haystack == IF config.caseSensitive THEN content ELSE toLowerCase(content)
      titleHaystack == IF config.caseSensitive THEN basenameOf(path)
                       ELSE toLowerCase(basenameOf(path))
      pathHaystack == IF config.caseSensitive THEN path ELSE toLowerCase(path)
  IN IF ~config.matchWholeWord
       THEN \/ includes(haystack, keyword)
            \/ includes(titleHaystack, keyword)
            \/ includes(pathHaystack, keyword)
       ELSE \/ regexTest(keyword, ~config.caseSensitive, content)
            \/ regexTest(keyword, ~config.caseSensitive, basenameOf(path))
            \/ regexTest(keyword, ~config.caseSensitive, path)

\* ------------------------------------------------------------------------
\* The vault, the registry and the scheduler
\* ------------------------------------------------------------------------

\* TFile objects of the vault: a plain note and two auto-nodes
Files == {"fA", "fN", "fM"}
NoFile == "none"

PathA == <<"q", "MD">>
PathN == <<"x", "MD">>
PathM == <<"j", "MD">>
\* Free path a note can be renamed to
SparePath == <<"z", "MD">>

\* Budget of external changes to the vault (create, modify, delete, rename)
MaxChanges == 1
\* Budget of failing reads and failing settings writes
MaxIoFailures == 1
\* Granularity of time
TimeStep == 250

\* scheduleRefresh(delay = 500), line 173, and scheduleRefresh(100), line 128
DefaultDelay == 500
StartupDelay == 100

\* Asynchronous activations that can be in flight at the same time
TaskIds == {"t1", "t2"}
\* Handles window.setTimeout can return
TimerIds == {1, 2}
NoTimer == 0
Off == 0 - 1

VARIABLES
  fileState,      \* "absent", "present" or "deleted", per TFile
  filePath,       \* TFile.path
  fileText,       \* content of the note
  frontmatter,    \* metadataCache frontmatter: declared config of the notes that declare one
  vaultOrder,     \* order in which getMarkdownFiles lists the notes
  nodeRecords,    \* this.nodeRecords: path -> AutoNodeRecord
  settingsNodes,  \* this.settings.nodes
  persisted,      \* the nodes of the settings store on disk
  refreshTimeout, \* this.refreshTimeout
  timers,         \* armed timeouts of the host: handle -> remaining delay
  timerDelay,     \* the delay each armed timeout was set with
  sinceSignal,    \* time elapsed since the last scheduleRefresh
  coalesced,      \* the last scheduleRefresh replaced an armed timer
  isUpdating,     \* this.isUpdating
  tasks,          \* activations of refreshAllAutoNodes
  notices,        \* failure notices shown
  settled,        \* notes refreshed to completion with no note changed since
  changesLeft,
  ioFailuresLeft,
  unloaded,       \* onunload has run: the registered event handlers are detached
  opResult        \* the last call of a public operation and what its caller got

vaultVars == <<fileState, filePath, fileText, frontmatter, vaultOrder>>
registryVars == <<nodeRecords, settingsNodes, persisted>>
timerVars == <<refreshTimeout, timers, timerDelay, sinceSignal, coalesced>>
sysVars == <<vaultVars, registryVars, timerVars, isUpdating, tasks, notices,
             settled, changesLeft, ioFailuresLeft, unloaded, opResult>>
vars == <<pureVars, sysVars>>

Rule(keyword, caseSensitive, matchWholeWord) ==
  [keyword |-> keyword, caseSensitive |-> caseSensitive,
   matchWholeWord |-> matchWholeWord]

\* { path, ...config }
Record(path, config) ==
  [path |-> path, keyword |-> config.keyword,
   caseSensitive |-> config.caseSensitive,
   matchWholeWord |-> config.matchWholeWord]

mapSet(m, k, v) == [x \in DOMAIN m \cup {k} |-> IF x = k THEN v ELSE m[x]]
mapDelete(m, k) == [x \in DOMAIN m \ {k} |-> m[x]]

\* getMarkdownFiles
getMarkdownFiles == vaultOrder

RECURSIVE withoutFile(_, _)
withoutFile(order, f) ==
  IF order = <<>> THEN <<>>
  ELSE IF order[1] = f THEN withoutFile(Tail(order), f)
  ELSE <<order[1]>> \o withoutFile(Tail(order), f)

\* The value the metadata cache holds for the YAML text []: an empty list,
\* which is not falsy
EmptyList == <<"[]">>

\* keyword.toString(), line 611: of a string the string, of the empty list
\* the empty string
valueToString(value) == IF value = EmptyList THEN <<>> ELSE value

\* detectAutoNodeConfig: the config the metadata cache holds for the note
detectAutoNodeConfig(f) ==
  IF fileState[f] = "present" /\ f \in DOMAIN frontmatter
       /\ frontmatter[f].keyword # <<>>
    THEN <<[frontmatter[f] EXCEPT !.keyword = valueToString(@)]>>
    ELSE <<>>

\* Mutant of resolveAutoNodeRecord: a derived record is not stored
resolveAutoNodeRecord_noStore(f, recs) ==
  IF filePath[f] \in DOMAIN recs
    THEN [recs |-> recs, found |-> <<recs[filePath[f]]>>, saves |-> <<>>]
  ELSE IF detectAutoNodeConfig(f) = <<>>
    THEN [recs |-> recs, found |-> <<>>, saves |-> <<>>]
  ELSE [recs |-> recs,
        found |-> <<Record(filePath[f], detectAutoNodeConfig(f)[1])>>,
        saves |-> <<>>]

\* resolveAutoNodeRecord on the registry recs: the registry afterwards, the
\* record found (none: the empty sequence) and the snapshots saved
resolveAutoNodeRecord(f, recs) ==
  IF filePath[f] \in DOMAIN recs
    THEN [recs |-> recs, found |-> <<recs[filePath[f]]>>, saves |-> <<>>]
  ELSE IF detectAutoNodeConfig(f) = <<>>
    THEN [recs |-> recs, found |-> <<>>, saves |-> <<>>]
  ELSE LET record == Record(filePath[f], detectAutoNodeConfig(f)[1])
           next == mapSet(recs, filePath[f], record)
       IN [recs |-> next, found |-> <<record>>, saves |-> <<next>>]

\* files.filter((file) => this.resolveAutoNodeRecord(file)), line 299
RECURSIVE filterAutoNodes(_, _)
filterAutoNodes(files, recs) ==
  IF files = <<>> THEN [recs |-> recs, autoNodes |-> <<>>, saves |-> <<>>]
  ELSE LET r == resolveAutoNodeRecord(files[1], recs)
           rest == filterAutoNodes(Tail(files), r.recs)
       IN [recs |-> rest.recs,
           autoNodes |-> (IF r.found # <<>> THEN <<files[1]>> ELSE <<>>)
                            \o rest.autoNodes,
           saves |-> r.saves \o rest.saves]

\* saveSettings for each snapshot of saves, in order: settings.nodes is the
\* last snapshot; a write to the store may fail, which is logged
SaveSettings(saves) ==
  IF saves = <<>> THEN UNCHANGED <<settingsNodes, persisted, ioFailuresLeft>>
  ELSE /\ settingsNodes' = saves[Len(saves)]
       /\ \/ /\ persisted' = saves[Len(saves)]
             /\ UNCHANGED ioFailuresLeft
          \/ /\ ioFailuresLeft > 0
             /\ ioFailuresLeft' = ioFailuresLeft - 1
             /\ persisted' \in {persisted}
                  \cup {saves[i] : i \in 1..(Len(saves) - 1)}

\* Mutant of ScheduleRefresh: the armed timer is not cleared
ScheduleRefresh_noClear(delay) ==
  LET free == {i \in TimerIds : timers[i] = Off}
      id == IF free = {} THEN refreshTimeout
            ELSE CHOOSE i \in free : \A k \in free : i <= k
  IN /\ timers' = [timers EXCEPT ![id] = delay]
     /\ timerDelay' = [timerDelay EXCEPT ![id] = delay]
     /\ refreshTimeout' = id
     /\ sinceSignal' = 0
     /\ coalesced' = (refreshTimeout # NoTimer)

\* Mutant of ScheduleRefresh: a signal that arrives while a refresh is in
\* flight is dropped
ScheduleRefresh_dropInFlight(delay) ==
  IF \E t \in DOMAIN tasks : tasks[t].pc # "idle"
    THEN UNCHANGED timerVars
    ELSE ScheduleRefresh_noClear(delay)

\* scheduleRefresh(delay), lines 173-184: clear the armed timer, arm a new one
ScheduleRefresh(delay) ==
  LET cleared == IF refreshTimeout # NoTimer
                   THEN [timers EXCEPT ![refreshTimeout] = Off]
                   ELSE timers
      free == {i \in TimerIds : cleared[i] = Off}
      id == CHOOSE i \in free : \A k \in free : i <= k
  IN /\ timers' = [cleared EXCEPT ![id] = delay]
     /\ timerDelay' = [timerDelay EXCEPT ![id] = delay]
     /\ refreshTimeout' = id
     /\ sinceSignal' = 0
     /\ coalesced' = (refreshTimeout # NoTimer)

\* A vault event reaches its handler, which ends with scheduleRefresh() (lines
\* 85-125), while the plugin is loaded; registerEvent detaches the handler
\* when the plugin unloads
OnVaultEvent ==
  IF unloaded THEN UNCHANGED timerVars ELSE ScheduleRefresh(DefaultDelay)

\* ------------------------------------------------------------------------
\* SyncEngine: refreshAllAutoNodes and refreshAutoNode
\* ------------------------------------------------------------------------

\* generateMarkdownLink(otherFile, file.path): a wikilink to the note
linkTo(basename) == <<"LB">> \o basename \o <<"RB">>
generateMarkdownLink(f) == linkTo(basenameOf(filePath[f]))

\* Mutant of collationRank: the order of the code units, upper case first
collationRank_codeUnit(t) ==
  CASE t = "J" -> 4 [] t = "Q" -> 5 [] t = "X" -> 6 [] t = "Z" -> 7
    [] t = "j" -> 11 [] t = "q" -> 12 [] t = "x" -> 13 [] t = "z" -> 14
    [] t = "RB" -> 9 [] t = "LB" -> 8 [] OTHER -> 3

\* Collation rank of a token, upper and lower case alike (sensitivity: "base")
collationRank(t) ==
  LET c == toLowerCaseToken(t)
  IN CASE c = "j" -> 11 [] c = "q" -> 12 [] c = "x" -> 13 [] c = "z" -> 14
       [] c = "RB" -> 2 [] c = "LB" -> 1 [] OTHER -> 3

\* a.localeCompare(b, undefined, { sensitivity: "base" }) <= 0
RECURSIVE localeLessEq(_, _)
localeLessEq(a, b) ==
  IF a = <<>> THEN TRUE
  ELSE IF b = <<>> THEN FALSE
  ELSE IF collationRank(a[1]) # collationRank(b[1])
    THEN collationRank(a[1]) < collationRank(b[1])
  ELSE localeLessEq(Tail(a), Tail(b))

\* Array.prototype.sort is stable: x goes before the first element greater than it
RECURSIVE insertSorted(_, _)
insertSorted(sorted, x) ==
  IF sorted = <<>> THEN <<x>>
  ELSE IF localeLessEq(sorted[1], x)
    THEN <<sorted[1]>> \o insertSorted(Tail(sorted), x)
  ELSE <<x>> \o sorted

RECURSIVE sortMatches(_)
sortMatches(matches) ==
  IF matches = <<>> THEN <<>>
  ELSE insertSorted(sortMatches(SubSeq(matches, 1, Len(matches) - 1)),
                    matches[Len(matches)])

\* Mutant of generatedSection: no placeholder for an empty list of matches
generatedSection_noPlaceholder(matches) ==
  LET sorted == sortMatches(matches)
  IN join([i \in 1..Len(sorted) |-> <<"DASH", "SP">> \o sorted[i]], <<"NL">>)

\* Lines 337-340
generatedSection(matches) ==
  LET sorted == sortMatches(matches)
  IN IF sorted # <<>>
       THEN join([i \in 1..Len(sorted) |-> <<"DASH", "SP">> \o sorted[i]],
                 <<"NL">>)
       ELSE Placeholder

DefaultRule == Rule(<<>>, FALSE, FALSE)

IdleTask ==
  [pc |-> "idle", queue |-> <<>>, file |-> NoFile, rule |-> DefaultRule,
   vaultFiles |-> <<>>, idx |-> 0, matches |-> <<>>, next |-> <<>>,
   done |-> <<>>, locked |-> <<>>, wrote |-> {}, undisturbed |-> FALSE,
   startedSettled |-> FALSE]

\* Mutant of nextOther: the target itself is not skipped
nextOther_noSkip(vaultFiles, i, f) ==
  IF i < Len(vaultFiles) THEN i + 1 ELSE 0

\* Index of the next note of vaultFiles after position i that is not the
\* target (otherFile.path === file.path is skipped), 0 when the loop ends
nextOther(vaultFiles, i, f) ==
  LET rest == {k \in (i + 1)..Len(vaultFiles) :
                  filePath[vaultFiles[k]] # filePath[f]}
  IN IF rest = {} THEN 0 ELSE CHOOSE k \in rest : \A m \in rest : k <= m

\* Mutant of startNext: the auto-node that is refreshed stays in the queue
RECURSIVE startNext_keepHead(_, _, _, _, _, _, _)
startNext_keepHead(queue, done, wrote, recs, saves, updating, settledNow) ==
  IF queue = <<>>
    THEN [task |-> IdleTask, recs |-> recs, saves |-> saves,
          updating |-> updating]
  ELSE LET f == queue[1] IN
    IF filePath[f] \in updating
      THEN startNext_keepHead(Tail(queue), done, wrote, recs, saves, updating,
                     settledNow)
    ELSE LET r == resolveAutoNodeRecord(f, recs) IN
      IF r.found = <<>>
        THEN startNext_keepHead(Tail(queue), done, wrote, r.recs, saves \o r.saves,
                       updating, settledNow)
      ELSE LET vaultFiles == getMarkdownFiles
               first == nextOther(vaultFiles, 0, f)
           IN [task |->
                 [pc |-> IF first = 0 THEN "read" ELSE "scan",
                  queue |-> queue,
                  file |-> f,
                  rule |-> Rule(r.found[1].keyword, r.found[1].caseSensitive,
                                r.found[1].matchWholeWord),
                  vaultFiles |-> vaultFiles,
                  idx |-> first,
                  matches |-> <<>>,
                  next |-> <<>>,
                  done |-> done \o <<f>>,
                  locked |-> filePath[f],
                  wrote |-> wrote,
                  undisturbed |-> TRUE,
                  startedSettled |-> settledNow[f]],
               recs |-> r.recs, saves |-> saves \o r.saves,
               updating |-> updating \cup {filePath[f]}]

\* The for loop of refreshAllAutoNodes from the note at the head of queue, up
\* to the first await of a refreshAutoNode that passes its guard and finds a
\* record (lines 301-326): the task, the registry, the saves and isUpdating;
\* done and wrote are the notes this pass has refreshed and written so far
RECURSIVE startNext(_, _, _, _, _, _, _)
startNext(queue, done, wrote, recs, saves, updating, settledNow) ==
  IF queue = <<>>
    THEN [task |-> IdleTask, recs |-> recs, saves |-> saves,
          updating |-> updating]
  ELSE LET f == queue[1] IN
    IF filePath[f] \in updating
      THEN startNext(Tail(queue), done, wrote, recs, saves, updating,
                     settledNow)
    ELSE LET r == resolveAutoNodeRecord(f, recs) IN
      IF r.found = <<>>
        THEN startNext(Tail(queue), done, wrote, r.recs, saves \o r.saves,
                       updating, settledNow)
      ELSE LET vaultFiles == getMarkdownFiles
               first == nextOther(vaultFiles, 0, f)
           IN [task |->
                 [pc |-> IF first = 0 THEN "read" ELSE "scan",
                  queue |-> Tail(queue),
                  file |-> f,
                  rule |-> Rule(r.found[1].keyword, r.found[1].caseSensitive,
                                r.found[1].matchWholeWord),
                  vaultFiles |-> vaultFiles,
                  idx |-> first,
                  matches |-> <<>>,
                  next |-> <<>>,
                  done |-> done \o <<f>>,
                  locked |-> filePath[f],
                  wrote |-> wrote,
                  undisturbed |-> TRUE,
                  startedSettled |-> settledNow[f]],
               recs |-> r.recs, saves |-> saves \o r.saves,
               updating |-> updating \cup {filePath[f]}]

\* A note changed: no refresh in flight is undisturbed any more
disturbed(ts) ==
  [t \in TaskIds |-> [ts[t] EXCEPT !.undisturbed = FALSE,
                                   !.startedSettled = FALSE]]

NoneSettled == [f \in Files |-> FALSE]

\* No public operation has been called
NoOp == [op |-> "none"]

\* buildInitialContent, lines 258-274
buildInitialContent(config) ==
  join(<< <<"D3">>, <<"Y1">> \o config.keyword, <<"Y2">>, <<"D3">>, <<>>,
          AUTO_NODE_INTRO, canonicalAnnotation(config.keyword),
          <<AUTO_NODE_MARKER_START>>, <<"C">>, <<AUTO_NODE_MARKER_END>>,
          <<>> >>, <<"NL">>)

\* Texts of the plain note: with and without the letter z
TextsA == { <<"z", "NL">>, <<"q", "NL">> }

\* Texts of the registered auto-node fN: a merged text with the placeholder,
\* the intro heading only between the markers, an end marker before the start
TextsN ==
  { AUTO_NODE_INTRO \o <<"NL", "S", "NL", "NL", "P", "NL", "NL", "E", "NL">>,
    <<"S", "NL", "H", "NL", "E", "NL">>,
    <<"E", "NL", "S", "NL">> }

\* The plain scenario: fN collects the notes with the letter z, fM (declared
\* by its frontmatter, not yet registered) the notes with the whole word q;
\* the plain note has one of its texts or does not exist yet
PlainRuleN == Rule(<<"z">>, FALSE, FALSE)
PlainRuleM == Rule(<<"q">>, TRUE, TRUE)

\* The mutual scenario: the keyword of fN is the placeholder text, the keyword
\* of fM is the name of fM itself, and there is no plain note
MutualRuleN == Rule(<<"P">>, TRUE, FALSE)
MutualRuleM == Rule(<<"j">>, FALSE, FALSE)

MergedPlaceholderText ==
  AUTO_NODE_INTRO \o <<"NL", "S", "NL", "NL", "P", "NL", "NL", "E", "NL">>

Scenarios ==
  { [n |-> PlainRuleN, m |-> PlainRuleM, textN |-> tn, textA |-> ta] :
      tn \in TextsN, ta \in TextsA \cup {<<>>} }
  \cup { [n |-> MutualRuleN, m |-> MutualRuleM,
          textN |-> MergedPlaceholderText, textA |-> <<>>] }

InitialOrder == <<"fA", "fN", "fM">>

RECURSIVE onlyPresent(_, _)
onlyPresent(order, state) ==
  IF order = <<>> THEN <<>>
  ELSE (IF state[order[1]] = "present" THEN <<order[1]>> ELSE <<>>)
         \o onlyPresent(Tail(order), state)

\* The state after onload and onLayoutReady in scenario sc: the settings are
\* loaded, the startup refresh is scheduled (line 128), nothing is in flight
SysInitWith(sc, loaded) ==
  /\ nodeRecords = loaded
  /\ frontmatter = ("fM" :> sc.m)
  /\ fileText = [f \in Files |->
                   IF f = "fA" THEN sc.textA
                   ELSE IF f = "fN" THEN sc.textN
                   ELSE buildInitialContent(sc.m)]
  /\ fileState = [f \in Files |->
                    IF f = "fA" /\ sc.textA = <<>> THEN "absent" ELSE "present"]
  /\ settingsNodes = nodeRecords
  /\ persisted = nodeRecords
  /\ filePath = [f \in Files |->
                   IF f = "fA" THEN PathA ELSE IF f = "fN" THEN PathN ELSE PathM]
  /\ vaultOrder = onlyPresent(InitialOrder, fileState)
  /\ refreshTimeout = 1
  /\ timers = [i \in TimerIds |-> IF i = 1 THEN StartupDelay ELSE Off]
  /\ timerDelay = [i \in TimerIds |-> IF i = 1 THEN StartupDelay ELSE 0]
  /\ sinceSignal = 0
  /\ coalesced = FALSE
  /\ isUpdating = {}
  /\ tasks = [t \in TaskIds |-> IdleTask]
  /\ notices = 0
  /\ settled = NoneSettled

\* loadSettings, lines 409-415: the registry built from the values of the
\* saved nodes object in their order, each keyed by its own path field (a
\* later record replaces an earlier one of the same path)
RECURSIVE loadSettings(_)
loadSettings(values) ==
  IF values = <<>> THEN <<>>
  ELSE LET n == Len(values)
       IN mapSet(loadSettings(SubSeq(values, 1, n - 1)), values[n].path,
                 values[n])

\* The settings that were saved hold the record of fN
SysInitIn(sc) == SysInitWith(sc, loadSettings(<<Record(PathN, sc.n)>>))

SysInit ==
  /\ \E sc \in Scenarios : SysInitIn(sc)
  /\ changesLeft = MaxChanges
  /\ ioFailuresLeft = MaxIoFailures
  /\ unloaded = FALSE
  /\ opResult = NoOp

MergeIdle ==
  /\ mergeCount = 0
  /\ mergeInput = <<>>
  /\ mergeGenerated = <<>>
  /\ mergePrev = <<>>
  /\ mergeOut = <<>>

PureIdle == MergeIdle /\ pureCall = NoCall

Init == SysInit /\ PureIdle

\* Time passes while a timer is counting down
Tick ==
  /\ \E i \in TimerIds : timers[i] > 0
  /\ timers' = [i \in TimerIds |->
                  IF timers[i] = Off THEN Off
                  ELSE IF timers[i] > TimeStep THEN timers[i] - TimeStep ELSE 0]
  /\ sinceSignal' = IF sinceSignal + TimeStep > DefaultDelay THEN DefaultDelay
                    ELSE sinceSignal + TimeStep
  /\ UNCHANGED <<refreshTimeout, timerDelay, coalesced>>
  /\ UNCHANGED <<vaultVars, registryVars, isUpdating, tasks, notices,
                 settled, changesLeft, ioFailuresLeft>>
  /\ UNCHANGED <<pureVars, unloaded, opResult>>

freeTask == IF tasks["t1"].pc = "idle" THEN "t1" ELSE "t2"

\* Mutant of TimerFire: the callback does not reset refreshTimeout
TimerFire_keepTimeout(i) ==
  /\ timers[i] = 0
  /\ tasks[freeTask].pc = "idle"
  /\ timers' = [timers EXCEPT ![i] = Off]
  /\ refreshTimeout' = refreshTimeout
  /\ UNCHANGED <<timerDelay, sinceSignal, coalesced>>
  /\ LET files == getMarkdownFiles
         filtered == filterAutoNodes(files, nodeRecords)
         st == startNext(filtered.autoNodes, <<>>, {}, filtered.recs,
                         filtered.saves, isUpdating, settled)
     IN /\ tasks' = [tasks EXCEPT ![freeTask] = st.task]
        /\ nodeRecords' = st.recs
        /\ isUpdating' = st.updating
        /\ SaveSettings(st.saves)
  /\ UNCHANGED <<vaultVars, notices, settled, changesLeft>>
  /\ UNCHANGED <<pureVars, unloaded, opResult>>

\* The timer callback, lines 177-183: refreshTimeout = null, then
\* refreshAllAutoNodes up to its first await (lines 297-326)
TimerFire(i) ==
  /\ timers[i] = 0
  /\ tasks[freeTask].pc = "idle"
  /\ timers' = [timers EXCEPT ![i] = Off]
  /\ refreshTimeout' = NoTimer
  /\ UNCHANGED <<timerDelay, sinceSignal, coalesced>>
  /\ LET files == getMarkdownFiles
         filtered == filterAutoNodes(files, nodeRecords)
         st == startNext(filtered.autoNodes, <<>>, {}, filtered.recs,
                         filtered.saves, isUpdating, settled)
     IN /\ tasks' = [tasks EXCEPT ![freeTask] = st.task]
        /\ nodeRecords' = st.recs
        /\ isUpdating' = st.updating
        /\ SaveSettings(st.saves)
  /\ UNCHANGED <<vaultVars, notices, settled, changesLeft>>
  /\ UNCHANGED <<pureVars, unloaded, opResult>>

\* The finally block of refreshAutoNode (line 349) and the next iterations of
\* the for loop of refreshAllAutoNodes, after the refresh of task t returned
FinishRefresh(t, settledNow) ==
  LET task == tasks[t]
      released == isUpdating \ {filePath[task.file]}
      st == startNext(task.queue, task.done, task.wrote, nodeRecords, <<>>,
                      released, settledNow)
  IN /\ tasks' = [tasks EXCEPT ![t] = st.task]
     /\ nodeRecords' = st.recs
     /\ isUpdating' = st.updating
     /\ SaveSettings(st.saves)

\* cachedRead(otherFile) returns (line 326): the note is tested, the loop goes
\* on to the next cachedRead or to vault.read(file)
ScanResume(t) ==
  LET task == tasks[t]
      other == task.vaultFiles[task.idx]
      k == nextOther(task.vaultFiles, task.idx, task.file)
  IN /\ task.pc = "scan"
     /\ fileState[other] = "present"
     /\ tasks' = [tasks EXCEPT ![t] =
          [task EXCEPT
             !.matches = IF containsKeyword(filePath[other], fileText[other],
                                            task.rule)
                           THEN task.matches \o <<generateMarkdownLink(other)>>
                           ELSE task.matches,
             !.idx = k,
             !.pc = IF k = 0 THEN "read" ELSE "scan"]]
     /\ UNCHANGED <<vaultVars, registryVars, timerVars, isUpdating, notices,
                    settled, changesLeft, ioFailuresLeft>>
     /\ UNCHANGED <<pureVars, unloaded, opResult>>

\* vault.read(file) returns (lines 342-345): merge, then either the write is
\* started or the refresh ends without a write
ReadResume(t) ==
  LET task == tasks[t]
      current == fileText[task.file]
      next == mergeGeneratedSection(current, generatedSection(task.matches),
                                    task.rule.keyword)
  IN /\ task.pc = "read"
     /\ fileState[task.file] = "present"
     /\ IF current # next
          THEN /\ tasks' = [tasks EXCEPT ![t] =
                              [task EXCEPT !.pc = "write", !.next = next]]
               /\ UNCHANGED <<registryVars, isUpdating, settled, ioFailuresLeft>>
          ELSE /\ settled' = [settled EXCEPT ![task.file] = task.undisturbed]
               /\ FinishRefresh(t, settled')
     /\ UNCHANGED <<vaultVars, timerVars, notices, changesLeft>>
     /\ UNCHANGED <<pureVars, unloaded, opResult>>

\* vault.modify(file, next) returns (line 346): the note is written, its
\* "modify" event runs scheduleRefresh (lines 85-91), the refresh ends
WriteResume(t) ==
  LET task == tasks[t]
  IN /\ task.pc = "write"
     /\ fileState[task.file] = "present"
     /\ fileText' = [fileText EXCEPT ![task.file] = task.next]
     /\ OnVaultEvent
     /\ settled' = [NoneSettled EXCEPT ![task.file] = task.undisturbed]
     /\ LET released == isUpdating \ {filePath[task.file]}
            st == startNext(task.queue, task.done, task.wrote \cup {task.file},
                            nodeRecords, <<>>, released, settled')
        IN /\ tasks' = [disturbed(tasks) EXCEPT ![t] = st.task]
           /\ nodeRecords' = st.recs
           /\ isUpdating' = st.updating
           /\ SaveSettings(st.saves)
     /\ UNCHANGED <<fileState, filePath, frontmatter, vaultOrder, notices,
                    changesLeft>>
     /\ UNCHANGED <<pureVars, unloaded, opResult>>

\* The note a suspended task is reading or writing
awaitedFile(task) ==
  IF task.pc = "scan" THEN task.vaultFiles[task.idx] ELSE task.file

\* A read or the write of refreshAutoNode rejects: the finally block releases
\* the path (line 349), refreshAllAutoNodes rejects, the catch of the timer
\* callback logs and shows a notice (lines 179-182)
RefreshThrows(t) ==
  LET task == tasks[t]
  IN /\ task.pc \in {"scan", "read", "write"}
     /\ IF fileState[awaitedFile(task)] = "present"
          THEN /\ ioFailuresLeft > 0
               /\ ioFailuresLeft' = ioFailuresLeft - 1
          ELSE UNCHANGED ioFailuresLeft
     /\ isUpdating' = isUpdating \ {filePath[task.file]}
     /\ tasks' = [tasks EXCEPT ![t] = IdleTask]
     /\ notices' = notices + 1
     /\ UNCHANGED <<vaultVars, registryVars, timerVars, settled, changesLeft>>
     /\ UNCHANGED <<pureVars, unloaded, opResult>>

\* removeAutoNodeRecord, lines 429-434
removeAutoNodeRecord(path, recs) ==
  IF path \in DOMAIN recs
    THEN [recs |-> mapDelete(recs, path), saves |-> <<mapDelete(recs, path)>>]
    ELSE [recs |-> recs, saves |-> <<>>]

\* Mutant of renameAutoNodeRecord: the record at oldPath is kept
renameAutoNodeRecord_keepOld(oldPath, newPath, recs) ==
  IF oldPath \in DOMAIN recs
    THEN LET record == [recs[oldPath] EXCEPT !.path = newPath]
             next == mapSet(recs, newPath, record)
         IN [recs |-> next, saves |-> <<next>>]
    ELSE [recs |-> recs, saves |-> <<>>]

\* renameAutoNodeRecord, lines 436-445
renameAutoNodeRecord(oldPath, newPath, recs) ==
  IF oldPath \in DOMAIN recs
    THEN LET record == [recs[oldPath] EXCEPT !.path = newPath]
             next == mapSet(mapDelete(recs, oldPath), newPath, record)
         IN [recs |-> next, saves |-> <<next>>]
    ELSE [recs |-> recs, saves |-> <<>>]

\* A note is modified outside the plugin; "modify" handler, lines 85-91 (the
\* metadataCache "changed" handler, lines 119-125, has the same body)
ExternalModify(f, text) ==
  /\ changesLeft > 0
  /\ fileState[f] = "present"
  /\ text # fileText[f]
  /\ fileText' = [fileText EXCEPT ![f] = text]
  /\ OnVaultEvent
  /\ settled' = NoneSettled
  /\ tasks' = disturbed(tasks)
  /\ changesLeft' = changesLeft - 1
  /\ UNCHANGED <<fileState, filePath, frontmatter, vaultOrder, registryVars,
                 isUpdating, notices, ioFailuresLeft>>
  /\ UNCHANGED <<pureVars, unloaded, opResult>>

\* A note is created outside the plugin; "create" handler, lines 93-99
ExternalCreate(f, text) ==
  /\ changesLeft > 0
  /\ fileState[f] = "absent"
  /\ fileState' = [fileState EXCEPT ![f] = "present"]
  /\ fileText' = [fileText EXCEPT ![f] = text]
  /\ vaultOrder' = Append(vaultOrder, f)
  /\ OnVaultEvent
  /\ settled' = NoneSettled
  /\ tasks' = disturbed(tasks)
  /\ changesLeft' = changesLeft - 1
  /\ UNCHANGED <<filePath, frontmatter, registryVars, isUpdating, notices,
                 ioFailuresLeft>>
  /\ UNCHANGED <<pureVars, unloaded, opResult>>

\* A note is deleted outside the plugin; "delete" handler, lines 101-108
ExternalDelete(f) ==
  /\ changesLeft > 0
  /\ fileState[f] = "present"
  /\ fileState' = [fileState EXCEPT ![f] = "deleted"]
  /\ vaultOrder' = withoutFile(vaultOrder, f)
  /\ frontmatter' = mapDelete(frontmatter, f)
  /\ LET r == IF unloaded THEN [recs |-> nodeRecords, saves |-> <<>>]
              ELSE removeAutoNodeRecord(filePath[f], nodeRecords)
     IN /\ nodeRecords' = r.recs
        /\ SaveSettings(r.saves)
  /\ OnVaultEvent
  /\ settled' = NoneSettled
  /\ tasks' = disturbed(tasks)
  /\ changesLeft' = changesLeft - 1
  /\ UNCHANGED <<filePath, fileText, isUpdating, notices>>
  /\ UNCHANGED <<pureVars, unloaded, opResult>>

\* A note is renamed outside the plugin; "rename" handler, lines 110-117
ExternalRename(f) ==
  /\ changesLeft > 0
  /\ fileState[f] = "present"
  /\ \A g \in Files : fileState[g] = "present" => filePath[g] # SparePath
  /\ filePath' = [filePath EXCEPT ![f] = SparePath]
  /\ LET r == IF unloaded THEN [recs |-> nodeRecords, saves |-> <<>>]
              ELSE renameAutoNodeRecord(filePath[f], SparePath, nodeRecords)
     IN /\ nodeRecords' = r.recs
        /\ SaveSettings(r.saves)
  /\ OnVaultEvent
  /\ settled' = NoneSettled
  /\ tasks' = disturbed(tasks)
  /\ changesLeft' = changesLeft - 1
  /\ UNCHANGED <<fileState, fileText, frontmatter, vaultOrder, isUpdating,
                 notices>>
  /\ UNCHANGED <<pureVars, unloaded, opResult>>

\* The rule a user edits into the frontmatter of a note that declares one
EditedRule == Rule(<<"z">>, FALSE, TRUE)

\* The text of a note with the keyword of its frontmatter block replaced
replaceDeclared(text, old, new) ==
  LET i == indexOf(text, "Y1")
  IN IF i = 0 THEN text
     ELSE SubSeq(text, 1, i) \o new \o sliceFrom(text, i + Len(old) + 1)

\* The frontmatter of a note is edited outside the plugin; "modify" handler,
\* lines 85-91, and metadataCache "changed" handler, lines 119-125
ExternalEditRule(f, config) ==
  /\ changesLeft > 0
  /\ fileState[f] = "present"
  /\ f \in DOMAIN frontmatter
  /\ config # frontmatter[f]
  /\ frontmatter' = [frontmatter EXCEPT ![f] = config]
  /\ fileText' = [fileText EXCEPT
                    ![f] = replaceDeclared(fileText[f], frontmatter[f].keyword,
                                           config.keyword)]
  /\ OnVaultEvent
  /\ settled' = NoneSettled
  /\ tasks' = disturbed(tasks)
  /\ changesLeft' = changesLeft - 1
  /\ UNCHANGED <<fileState, filePath, vaultOrder, registryVars, isUpdating,
                 notices, ioFailuresLeft>>
  /\ UNCHANGED <<pureVars, unloaded, opResult>>

\* Mutant of Onunload: the armed timer is left running
Onunload_noClear ==
  /\ ~unloaded
  /\ unloaded' = TRUE
  /\ refreshTimeout' = NoTimer
  /\ UNCHANGED <<timers, timerDelay, sinceSignal, coalesced>>
  /\ UNCHANGED <<vaultVars, registryVars, isUpdating, tasks, notices, settled,
                 changesLeft, ioFailuresLeft, opResult>>
  /\ UNCHANGED pureVars

\* onunload, lines 157-171: the armed timer is cleared and refreshTimeout set
\* to null; the activations in flight and isUpdating are left as they are
Onunload ==
  /\ ~unloaded
  /\ unloaded' = TRUE
  /\ timers' = IF refreshTimeout # NoTimer
                 THEN [timers EXCEPT ![refreshTimeout] = Off]
                 ELSE timers
  /\ refreshTimeout' = NoTimer
  /\ UNCHANGED <<timerDelay, sinceSignal, coalesced>>
  /\ UNCHANGED <<vaultVars, registryVars, isUpdating, tasks, notices, settled,
                 changesLeft, ioFailuresLeft, opResult>>
  /\ UNCHANGED pureVars

SysNext ==
  \/ Tick
  \/ \E i \in TimerIds : TimerFire(i)
  \/ \E t \in TaskIds : ScanResume(t)
  \/ \E t \in TaskIds : ReadResume(t)
  \/ \E t \in TaskIds : WriteResume(t)
  \/ \E t \in TaskIds : RefreshThrows(t)
  \/ \E text \in TextsA : ExternalModify("fA", text)
  \/ \E text \in TextsA : ExternalCreate("fA", text)
  \/ \E f \in Files : ExternalDelete(f)
  \/ \E f \in Files : ExternalRename(f)

Next == SysNext

Spec == Init /\ [][Next]_vars

\* The vault changes include edits of the declared rule of a note
NextEdit == SysNext \/ ExternalEditRule("fM", EditedRule)

SpecEdit == Init /\ [][NextEdit]_vars

\* The life of the plugin up to and after its teardown
NextUnload == SysNext \/ Onunload

SpecUnload == Init /\ [][NextUnload]_vars

\* The engine at rest with an empty vault, for the checks of the pure functions
SysQuiet ==
  /\ fileState = [f \in Files |-> "absent"]
  /\ filePath = [f \in Files |->
                   IF f = "fA" THEN PathA ELSE IF f = "fN" THEN PathN ELSE PathM]
  /\ fileText = [f \in Files |-> <<>>]
  /\ frontmatter = <<>>
  /\ vaultOrder = <<>>
  /\ nodeRecords = <<>>
  /\ settingsNodes = <<>>
  /\ persisted = <<>>
  /\ refreshTimeout = NoTimer
  /\ timers = [i \in TimerIds |-> Off]
  /\ timerDelay = [i \in TimerIds |-> 0]
  /\ sinceSignal = 0
  /\ coalesced = FALSE
  /\ isUpdating = {}
  /\ tasks = [t \in TaskIds |-> IdleTask]
  /\ notices = 0
  /\ settled = NoneSettled
  /\ changesLeft = 0
  /\ ioFailuresLeft = 0
  /\ unloaded = FALSE
  /\ opResult = NoOp

\* One call of mergeGeneratedSection on the text the previous call returned
MergeCall ==
  /\ mergeCount < 2
  /\ mergeCount' = mergeCount + 1
  /\ mergePrev' = mergeOut
  /\ mergeOut' = mergeGeneratedSection(mergeOut, mergeGenerated, <<"x">>)
  /\ UNCHANGED <<mergeInput, mergeGenerated>>
  /\ UNCHANGED <<pureCall, sysVars>>

MergeNext == MergeCall

InitMerge == MergeInit /\ pureCall = NoCall /\ SysQuiet

SpecMerge == InitMerge /\ [][MergeNext]_vars

\* Without changes from outside: the timers and the passes alone
NextQuiet ==
  \/ Tick
  \/ \E i \in TimerIds : TimerFire(i)
  \/ \E t \in TaskIds : ScanResume(t)
  \/ \E t \in TaskIds : ReadResume(t)
  \/ \E t \in TaskIds : WriteResume(t)
  \/ \E t \in TaskIds : RefreshThrows(t)

\* A step of the activation t, and the condition under which it is enabled:
\* the read or the write it awaits is of a note that exists
TaskStep(t) == ScanResume(t) \/ ReadResume(t) \/ WriteResume(t)
TaskReady(t) ==
  /\ tasks[t].pc # "idle"
  /\ fileState[awaitedFile(tasks[t])] = "present"

\* The host runs its event loop: time passes and an expired timeout runs its
\* callback (weak fairness of Tick and of TimerFire); the read or the write an
\* activation awaits completes (weak fairness of TaskStep, written with its
\* enabling condition TaskReady)
Fairness ==
  /\ WF_vars(Tick)
  /\ \A i \in TimerIds : WF_vars(TimerFire(i))
  /\ \A t \in TaskIds :
       []<>(~TaskReady(t)) \/ []<><<TaskStep(t)>>_vars

SpecQuiet == Init /\ [][NextQuiet]_vars /\ Fairness

\* ------------------------------------------------------------------------
\* Properties of the scheduler and of the engine
\* ------------------------------------------------------------------------

ArmedTimers == {i \in TimerIds : timers[i] # Off}
InFlight == {t \in TaskIds : tasks[t].pc # "idle"}

\* No timer armed and no refresh in flight
Quiescent == refreshTimeout = NoTimer /\ ArmedTimers = {} /\ InFlight = {}

\* The auto-nodes of the vault and their rules, as resolveAutoNodeRecord finds them
IsAutoNode(f) ==
  fileState[f] = "present" /\ resolveAutoNodeRecord(f, nodeRecords).found # <<>>
ruleOf(f) == resolveAutoNodeRecord(f, nodeRecords).found[1]

\* What lies between the first start marker and the first end marker
sectionOf(text) ==
  LET a == indexOf(text, AUTO_NODE_MARKER_START)
      b == indexOf(text, AUTO_NODE_MARKER_END)
  IN IF a = 0 \/ b = 0 \/ b < a THEN <<>> ELSE SubSeq(text, a + 1, b - 1)

EndBeforeStart(text) ==
  LET a == firstStart(text)
      b == firstEnd(text)
  IN b # 0 /\ (a = 0 \/ b < a)

countOf(s, sub) ==
  Cardinality({i \in 1..(Len(s) - Len(sub) + 1) :
                 SubSeq(s, i, i + Len(sub) - 1) = sub})

\* The links to the notes other than f that match the rule of f
expectedLinks(f) ==
  {generateMarkdownLink(g) :
     g \in {h \in Files \ {f} :
              /\ fileState[h] = "present"
              /\ containsKeyword(filePath[h], fileText[h], ruleOf(f))}}

\* The section of f has each expected link once and no other link
ListsExactly(f) ==
  LET section == sectionOf(fileText[f])
  IN /\ \A l \in expectedLinks(f) : countOf(section, l) = 1
     /\ \A i \in 1..Len(section) :
          section[i] = "LB" =>
            /\ i + 2 <= Len(section)
            /\ SubSeq(section, i, i + 2) \in expectedLinks(f)
     /\ countOf(section, generateMarkdownLink(f)) = 0

\* C1: no change is lost. In a state with no timer armed and no refresh in
\* flight nothing happens until a note changes; reached without a failure
\* notice and with the markers of every auto-node in order, the section of
\* every auto-node lists exactly the other notes that match its rule
C1_NoChangeLost ==
  (/\ Quiescent
   /\ notices = 0
   /\ isUpdating = {}
   /\ \A f \in Files : IsAutoNode(f) => ~EndBeforeStart(fileText[f]))
  => \A f \in Files : IsAutoNode(f) => ListsExactly(f)

\* C4: the self-triggering cycle is broken. With no change from outside,
\* eventually no timer is armed any more
C4_CycleBroken == <>[](refreshTimeout = NoTimer)

\* A scheduleRefresh ran: a vault event of a change from outside or of the
\* write of a refresh
Signal ==
  \/ \E t \in TaskIds : WriteResume(t)
  \/ \E text \in TextsA : ExternalModify("fA", text)
  \/ \E text \in TextsA : ExternalCreate("fA", text)
  \/ \E f \in Files : ExternalDelete(f)
  \/ \E f \in Files : ExternalRename(f)

\* C5: debounce coalescing. At most one timer is armed, the one refreshTimeout
\* names; a signal leaves exactly one timer armed, with the full delay, also
\* when the startup timer was armed; a pass starts only when the delay of its
\* timer has elapsed since the last signal, and leaves no timer armed
C5_DebounceCoalescing ==
  /\ [](/\ Cardinality(ArmedTimers) <= 1
        /\ refreshTimeout = NoTimer => ArmedTimers = {}
        /\ refreshTimeout # NoTimer => ArmedTimers = {refreshTimeout})
  /\ [][/\ Signal =>
             /\ ArmedTimers' = {refreshTimeout'}
             /\ timers'[refreshTimeout'] = DefaultDelay
             /\ sinceSignal' = 0
        /\ \A i \in TimerIds :
             TimerFire(i) =>
               /\ sinceSignal >= timerDelay[i]
               /\ coalesced => timerDelay[i] = DefaultDelay
               /\ ArmedTimers' = {}]_vars

\* A burst of signals was coalesced and its one pass has started
C5_Witness ==
  /\ coalesced
  /\ refreshTimeout = NoTimer
  /\ sinceSignal = DefaultDelay
  /\ InFlight # {}

Range(seq) == {seq[i] : i \in 1..Len(seq)}

\* C6: re-entrancy guard. Within one pass no auto-node is refreshed twice:
\* the notes a pass has refreshed, the ones it wrote among them, are all
\* different and none of them is still ahead in the pass
C6_ReentrancyGuard ==
  \A t \in TaskIds :
    /\ \A i, k \in 1..Len(tasks[t].done) :
         i # k => tasks[t].done[i] # tasks[t].done[k]
    /\ Range(tasks[t].queue) \cap Range(tasks[t].done) = {}
    /\ tasks[t].wrote \subseteq Range(tasks[t].done)

\* A pass wrote an auto-node and goes on with another one while the timer
\* the write armed is counting
C6_Witness ==
  \E t \in TaskIds :
    /\ tasks[t].pc # "idle"
    /\ tasks[t].wrote # {}
    /\ tasks[t].file \notin tasks[t].wrote
    /\ refreshTimeout # NoTimer

C8_SecondRefreshNoWrite ==
  \A t \in TaskIds :
    tasks[t].pc = "write" =>
      ~(tasks[t].startedSettled /\ tasks[t].undisturbed)

\* The read of a candidate note fails
ScanFails(t) ==
  /\ tasks[t].pc = "scan"
  /\ fileState[awaitedFile(tasks[t])] = "present"
  /\ RefreshThrows(t)

\* C9: a failing read of a candidate note is isolated. The note counts as not
\* matching, the refresh of the auto-node goes on with the remaining notes,
\* the pass keeps the auto-nodes it has still to refresh
C9_ScanFailureIsolated ==
  [][\A t \in TaskIds :
       ScanFails(t) =>
         /\ tasks'[t].pc \in {"scan", "read"}
         /\ tasks'[t].file = tasks[t].file
         /\ tasks'[t].matches = tasks[t].matches
         /\ tasks'[t].queue = tasks[t].queue]_vars

\* C10: a failing pass does not leave the scheduler stuck. When the pass
\* throws, a notice is shown, the pass is over, the timer is as it was (none
\* armed unless a signal came during the pass) and the path the failed refresh
\* put into isUpdating is not in it any more
C10_FailingPassReleases ==
  [][\A t \in TaskIds :
       RefreshThrows(t) =>
         /\ notices' = notices + 1
         /\ tasks'[t].pc = "idle"
         /\ UNCHANGED <<refreshTimeout, timers>>
         /\ tasks[t].locked \notin isUpdating']_vars

\* ------------------------------------------------------------------------
\* Teardown
\* ------------------------------------------------------------------------

\* C11: teardown cancels the timer. After onunload refreshTimeout is null and
\* no timer is armed, and no timer callback runs after onunload, so that no
\* pass starts after teardown
C11_TeardownCancelsTimer ==
  /\ [](unloaded => (refreshTimeout = NoTimer /\ ArmedTimers = {}))
  /\ [][\A i \in TimerIds : ~(unloaded /\ TimerFire(i))]_vars

\* onunload ran while a timer was armed and counting: no time has passed
\* since the signal that armed it
C11_Witness ==
  /\ unloaded
  /\ sinceSignal = 0
  /\ \E i \in TimerIds : timerDelay[i] > 0
  /\ ArmedTimers = {}

\* C12: no recomputation after teardown. After onunload no candidate note is
\* read for a scan and no auto-node is written, also when a pass was in flight
\* at the moment of teardown
C12_NoRecomputeAfterTeardown ==
  [][\A t \in TaskIds :
       ~(unloaded /\ (ScanResume(t) \/ WriteResume(t)))]_vars

\* ------------------------------------------------------------------------
\* The generated body
\* ------------------------------------------------------------------------

\* The lines of a text
RECURSIVE splitLines(_)
splitLines(s) ==
  LET k == indexOf(s, "NL")
  IN IF k = 0 THEN <<s>>
     ELSE <<SubSeq(s, 1, k - 1)>> \o splitLines(sliceFrom(s, k + 1))

\* What a write of the activation t puts between the markers
writtenBody(t) == trim(sectionOf(tasks[t].next))

\* C13: when the scan of an auto-node found no matching note, the body that is
\* written between the markers is exactly the placeholder; when it found
\* matching notes, the body has one line "- <link>" per match and nothing
\* else, and the placeholder is not in it. The scan of a refresh during which
\* no note changed found exactly the notes that match the rule
C13_GeneratedBody ==
  \A t \in TaskIds :
    (tasks[t].pc = "write" /\ ~EndBeforeStart(tasks[t].next)) =>
      LET matches == tasks[t].matches
          lines == splitLines(writtenBody(t))
      IN /\ IF matches = <<>>
              THEN writtenBody(t) = Placeholder
              ELSE /\ Len(lines) = Len(matches)
                   /\ \A i \in 1..Len(lines) :
                        \E l \in Range(matches) : lines[i] = <<"DASH", "SP">> \o l
                   /\ \A l \in Range(matches) :
                        Cardinality({i \in 1..Len(lines) :
                                       lines[i] = <<"DASH", "SP">> \o l})
                          = Cardinality({i \in 1..Len(matches) : matches[i] = l})
                   /\ ~includes(writtenBody(t), Placeholder)
         /\ tasks[t].undisturbed =>
              Range(matches) = expectedLinks(tasks[t].file)

\* A write that replaces the placeholder by the links to two matching notes
C13_Witness ==
  \E t \in TaskIds :
    /\ tasks[t].pc = "write"
    /\ Len(tasks[t].matches) = 2
    /\ trim(sectionOf(fileText[tasks[t].file])) = Placeholder

\* ------------------------------------------------------------------------
\* The order of the links
\* ------------------------------------------------------------------------

\* Longest list of matches
MaxMatches == 3

\* Names of matching notes, in both cases
SortNames == { <<"q">>, <<"Z">>, <<"j">>, <<"X">>, <<"x">> }

\* The matches of a scan, in the order in which the vault lists the notes
SortInputs ==
  UNION { [1..n -> {linkTo(b) : b \in SortNames}] : n \in 0..MaxMatches }

SortInit ==
  pureCall \in {[fn |-> "sort", matches |-> m, out |-> <<>>, done |-> FALSE] :
                  m \in SortInputs}

InitSort == SortInit /\ MergeIdle /\ SysQuiet

\* Lines 336-340 on the matches of the scan
SortCall ==
  /\ pureCall.fn = "sort"
  /\ ~pureCall.done
  /\ pureCall' = [pureCall EXCEPT !.out = generatedSection(pureCall.matches),
                                  !.done = TRUE]
  /\ UNCHANGED <<mergeVars, sysVars>>

SortNext == SortCall

SpecSort == InitSort /\ [][SortNext]_vars

\* The reference of a bullet line
lineRef(line) == SubSeq(line, 3, Len(line))

\* Place of a character in the alphabet, ignoring its case; the brackets and
\* the extension come before the letters
alphabetPlace(t) ==
  CASE t \in {"j", "J"} -> 10 [] t \in {"q", "Q"} -> 17
    [] t \in {"x", "X"} -> 24 [] t \in {"z", "Z"} -> 26
    [] t = "LB" -> 1 [] t = "RB" -> 2 [] t = "MD" -> 3

\* a comes before b or equals it, ignoring case
RECURSIVE lessEqIgnoringCase(_, _)
lessEqIgnoringCase(a, b) ==
  IF a = <<>> THEN TRUE
  ELSE IF b = <<>> THEN FALSE
  ELSE IF alphabetPlace(a[1]) = alphabetPlace(b[1])
    THEN lessEqIgnoringCase(Tail(a), Tail(b))
  ELSE alphabetPlace(a[1]) < alphabetPlace(b[1])

\* The lists with the elements of m in another order
Reorderings(m) ==
  {p \in [1..Len(m) -> Range(m)] :
     \A l \in Range(m) :
       Cardinality({i \in 1..Len(m) : p[i] = l})
         = Cardinality({i \in 1..Len(m) : m[i] = l})}

\* C14: of two adjacent bullet lines the reference of the earlier one comes
\* before the reference of the later one or equals it, ignoring case, in
\* whatever order the vault lists the notes; when no two references are equal
\* ignoring case, the generated section is the same for every order of the list
C14_SortedIgnoringCase ==
  (pureCall.fn = "sort" /\ pureCall.done /\ pureCall.matches # <<>>) =>
    LET m == pureCall.matches
        lines == splitLines(pureCall.out)
    IN /\ Len(lines) = Len(m)
       /\ \A i \in 1..(Len(lines) - 1) :
            lessEqIgnoringCase(lineRef(lines[i]), lineRef(lines[i + 1]))
       /\ (\A i, k \in 1..Len(m) :
             (i # k) => ~(/\ lessEqIgnoringCase(m[i], m[k])
                          /\ lessEqIgnoringCase(m[k], m[i]))) =>
            \A p \in Reorderings(m) : generatedSection(p) = pureCall.out

\* The vault lists Z before q, the section lists q before Z
C14_Witness ==
  /\ pureCall.fn = "sort"
  /\ pureCall.done
  /\ pureCall.matches = <<linkTo(<<"Z">>), linkTo(<<"q">>)>>
  /\ pureCall.out = <<"DASH", "SP">> \o linkTo(<<"q">>) \o <<"NL">>
                      \o <<"DASH", "SP">> \o linkTo(<<"Z">>)

\* ------------------------------------------------------------------------
\* KeywordMatcher
\* ------------------------------------------------------------------------

\* Longest body
MaxBody == 3

\* Bodies of letters in both cases, the sharp s and spaces
MatchContents ==
  UNION { [1..n -> {"q", "Q", "x", "sz", "SP"}] : n \in 0..MaxBody }

MatchKeywords == { <<"q">>, <<"Q">>, <<"q", "x">>, <<"q", "sz">> }

\* Paths without the letter q, with it as the title, as a part of the title
\* and as the folder
MatchPaths ==
  { <<"j", "MD">>, <<"q", "MD">>, <<"Q", "x", "MD">>, <<"q", "SL", "j", "MD">> }

MatchInit ==
  pureCall \in {[fn |-> "containsKeyword", path |-> p, content |-> c,
                 config |-> Rule(k, cs, ww), out |-> FALSE, done |-> FALSE] :
                  p \in MatchPaths, c \in MatchContents, k \in MatchKeywords,
                  cs \in BOOLEAN, ww \in BOOLEAN}

InitMatch == MatchInit /\ MergeIdle /\ SysQuiet

\* containsKeyword(file, content, config), lines 353-369
MatchCall ==
  /\ pureCall.fn = "containsKeyword"
  /\ ~pureCall.done
  /\ pureCall' = [pureCall EXCEPT
                    !.out = containsKeyword(pureCall.path, pureCall.content,
                                            pureCall.config),
                    !.done = TRUE]
  /\ UNCHANGED <<mergeVars, sysVars>>

MatchNext == MatchCall

SpecMatch == InitMatch /\ [][MatchNext]_vars

Matched == pureCall.fn = "containsKeyword" /\ pureCall.done

\* C15: with caseSensitive = false, in both modes, containsKeyword gives the
\* same result for the body, for the body in upper case and for the body in
\* lower case
C15_CaseSymmetry ==
  (Matched /\ ~pureCall.config.caseSensitive) =>
    /\ pureCall.out = containsKeyword(pureCall.path,
                                      toUpperCase(pureCall.content),
                                      pureCall.config)
    /\ pureCall.out = containsKeyword(pureCall.path,
                                      toLowerCase(pureCall.content),
                                      pureCall.config)

\* The keyword is made of word characters
IsWord(keyword) ==
  /\ keyword # <<>>
  /\ \A i \in 1..Len(keyword) : keyword[i] \in LowerLetters \cup UpperLetters

\* The keyword occurs in s with a non-word character or the end of s on both
\* sides, compared with or without case
occursAsWord(keyword, s, caseSensitive) ==
  \E i \in 1..(Len(s) - Len(keyword) + 1) :
    LET last == i + Len(keyword) - 1
        found == SubSeq(s, i, last)
    IN /\ IF caseSensitive THEN found = keyword
          ELSE toLowerCase(found) = toLowerCase(keyword)
       /\ i = 1 \/ ~WordAtEnd(s[i - 1])
       /\ last = Len(s) \/ ~WordAtStart(s[last + 1])

\* C16: in whole-word mode, for a keyword of word characters, containsKeyword
\* is true exactly when the keyword occurs as a word in the body, in the title
\* or in the path
C16_WholeWord ==
  (Matched /\ pureCall.config.matchWholeWord
     /\ IsWord(pureCall.config.keyword)) =>
    LET k == pureCall.config.keyword
        cs == pureCall.config.caseSensitive
    IN pureCall.out <=> \/ occursAsWord(k, pureCall.content, cs)
                        \/ occursAsWord(k, basenameOf(pureCall.path), cs)
                        \/ occursAsWord(k, pureCall.path, cs)

\* The keyword q is inside a longer word of the body and is not the title; it
\* is a word of the path, and that suffices
C16_Witness ==
  /\ Matched
  /\ pureCall.config = Rule(<<"q">>, TRUE, TRUE)
  /\ pureCall.content = <<"x", "q", "x">>
  /\ pureCall.path = <<"q", "SL", "j", "MD">>
  /\ pureCall.out

\* a is a substring of b
isSubstring(a, b) ==
  \E i \in 1..(Len(b) - Len(a) + 1) : SubSeq(b, i, i + Len(a) - 1) = a

\* C17: in substring mode containsKeyword is true exactly when the keyword is
\* a substring of the body, of the title or of the path, all four in lower
\* case when caseSensitive = false and verbatim when caseSensitive = true
C17_Substring ==
  (Matched /\ ~pureCall.config.matchWholeWord) =>
    LET cs == pureCall.config.caseSensitive
        k == IF cs THEN pureCall.config.keyword
             ELSE toLowerCase(pureCall.config.keyword)
        body == IF cs THEN pureCall.content ELSE toLowerCase(pureCall.content)
        title == IF cs THEN basenameOf(pureCall.path)
                 ELSE toLowerCase(basenameOf(pureCall.path))
        path == IF cs THEN pureCall.path ELSE toLowerCase(pureCall.path)
    IN pureCall.out <=> \/ isSubstring(k, body)
                        \/ isSubstring(k, title)
                        \/ isSubstring(k, path)

\* Without case the keyword Q is found in the title Qx of a note whose body
\* does not have it
C17_Witness ==
  /\ Matched
  /\ pureCall.config = Rule(<<"q">>, FALSE, FALSE)
  /\ pureCall.content = <<"x", "SP", "x">>
  /\ pureCall.path = <<"Q", "x", "MD">>
  /\ pureCall.out

\* ------------------------------------------------------------------------
\* AutoNodeRegistry
\* ------------------------------------------------------------------------

\* C18: frontmatter is the source of truth. For every note that declares a
\* rule, the record resolveAutoNodeRecord returns, which is what a refresh
\* scans with, is the declared rule under the path of the note, also after
\* the declaration was edited while a record was cached
C18_FrontmatterIsTruth ==
  \A f \in Files :
    (fileState[f] = "present" /\ detectAutoNodeConfig(f) # <<>>) =>
      resolveAutoNodeRecord(f, nodeRecords).found
        = <<Record(filePath[f], detectAutoNodeConfig(f)[1])>>

\* C19: lazy discovery. When a pass starts it filters the notes of the vault
\* with resolveAutoNodeRecord: the record of a note with a record is left as
\* it is, whatever the note declares; a note without a record that declares
\* no keyword gets none; a note without a record that declares a keyword gets
\* the record {path, declared rule}, the settings are saved with it, and a
\* later resolve of the path is a hit
C19_LazyDiscovery ==
  [][(\E i \in TimerIds : TimerFire(i)) =>
       /\ \A k \in 1..Len(vaultOrder) :
            LET f == vaultOrder[k]
                path == filePath[f]
            IN IF path \in DOMAIN nodeRecords
                 THEN /\ path \in DOMAIN nodeRecords'
                      /\ nodeRecords'[path] = nodeRecords[path]
               ELSE IF detectAutoNodeConfig(f) = <<>>
                 THEN path \notin DOMAIN nodeRecords'
               ELSE /\ path \in DOMAIN nodeRecords'
                    /\ nodeRecords'[path]
                         = Record(path, detectAutoNodeConfig(f)[1])
                    /\ settingsNodes' = nodeRecords'
                    /\ resolveAutoNodeRecord(f, nodeRecords')
                         = [recs |-> nodeRecords',
                            found |-> <<nodeRecords'[path]>>, saves |-> <<>>]
       /\ \A path \in DOMAIN nodeRecords' \ DOMAIN nodeRecords :
            \E k \in 1..Len(vaultOrder) : filePath[vaultOrder[k]] = path
       /\ (nodeRecords' = nodeRecords) => UNCHANGED <<settingsNodes, persisted>>
    ]_vars

\* The note j.md was discovered by a pass and saved; its declaration was
\* edited afterwards, its record is the one from before the edit, and a
\* refresh that started after the edit scans with it
C19_Witness ==
  /\ PathM \in DOMAIN nodeRecords
  /\ PathM \in DOMAIN settingsNodes
  /\ settingsNodes[PathM] = nodeRecords[PathM]
  /\ fileState["fM"] = "present"
  /\ frontmatter["fM"] = EditedRule
  /\ nodeRecords[PathM] # Record(PathM, EditedRule)
  /\ \E t \in TaskIds :
       /\ tasks[t].file = "fM"
       /\ tasks[t].undisturbed
       /\ tasks[t].rule.keyword = nodeRecords[PathM].keyword

\* C20: rename is a pure key migration. When the renamed note has a record,
\* after the rename handler there is no record at the old path, the record at
\* the new path has the new path and the keyword and flags from before, the
\* records at other paths are as before and the settings are saved with the
\* new registry; when it has none, the registry and the settings are unchanged
C20_RenameMigrates ==
  [][\A f \in Files :
       ExternalRename(f) =>
         LET old == filePath[f]
             new == filePath'[f]
         IN IF old \in DOMAIN nodeRecords
              THEN /\ DOMAIN nodeRecords'
                        = (DOMAIN nodeRecords \ {old}) \cup {new}
                   /\ old \notin DOMAIN nodeRecords'
                   /\ nodeRecords'[new] = [nodeRecords[old] EXCEPT !.path = new]
                   /\ \A p \in DOMAIN nodeRecords \ {old, new} :
                        nodeRecords'[p] = nodeRecords[p]
                   /\ settingsNodes' = nodeRecords'
              ELSE UNCHANGED <<nodeRecords, settingsNodes, persisted>>]_vars

\* x.md was renamed to z.md: its record is at the new path with its rule, the
\* record of j.md is still there, the settings hold the new registry
C20_Witness ==
  /\ filePath["fN"] = SparePath
  /\ PathN \notin DOMAIN nodeRecords
  /\ SparePath \in DOMAIN nodeRecords
  /\ nodeRecords[SparePath].path = SparePath
  /\ nodeRecords[SparePath].keyword \in {PlainRuleN.keyword, MutualRuleN.keyword}
  /\ PathM \in DOMAIN nodeRecords
  /\ settingsNodes = nodeRecords

\* ------------------------------------------------------------------------
\* AutoNodeRegistry: getAutoNodeRecords
\* ------------------------------------------------------------------------

\* Most records in the registry
MaxRecords == 3

\* Paths of registered notes; two of them differ only in case
ListPaths ==
  { <<"q", "MD">>, <<"Q", "MD">>, <<"x", "MD">>, <<"j", "MD">>, <<"Z", "MD">> }

\* The values of the Map nodeRecords in insertion order: records with
\* pairwise different paths
ListInputs ==
  UNION { {m \in [1..n -> {Record(p, PlainRuleN) : p \in ListPaths}] :
             \A i, k \in 1..n : (i # k) => m[i].path # m[k].path} :
          n \in 0..MaxRecords }

\* Array.prototype.sort with the comparator of line 466 is stable: a record
\* goes before the first record whose path is greater than its path
RECURSIVE insertByPath(_, _)
insertByPath(sorted, r) ==
  IF sorted = <<>> THEN <<r>>
  ELSE IF localeLessEq(sorted[1].path, r.path)
    THEN <<sorted[1]>> \o insertByPath(Tail(sorted), r)
  ELSE <<r>> \o sorted

\* getAutoNodeRecords, lines 465-467, on the values in insertion order
RECURSIVE getAutoNodeRecords(_)
getAutoNodeRecords(values) ==
  IF values = <<>> THEN <<>>
  ELSE insertByPath(getAutoNodeRecords(SubSeq(values, 1, Len(values) - 1)),
                    values[Len(values)])

ListInit ==
  pureCall \in {[fn |-> "getAutoNodeRecords", values |-> m, out |-> <<>>,
                 done |-> FALSE] : m \in ListInputs}

InitList == ListInit /\ MergeIdle /\ SysQuiet

ListCall ==
  /\ pureCall.fn = "getAutoNodeRecords"
  /\ ~pureCall.done
  /\ pureCall' = [pureCall EXCEPT !.out = getAutoNodeRecords(pureCall.values),
                                  !.done = TRUE]
  /\ UNCHANGED <<mergeVars, sysVars>>

ListNext == ListCall

SpecList == InitList /\ [][ListNext]_vars

\* Every record of values is in out exactly once and out has nothing else
SameRecords(values, out) ==
  /\ Len(out) = Len(values)
  /\ \A i \in 1..Len(values) :
       Cardinality({k \in 1..Len(out) : out[k] = values[i]}) = 1

\* Adjacent records are in the order of their paths, ignoring case
OrderedByPath(out) ==
  \A i \in 1..(Len(out) - 1) : 
    lessEqIgnoringCase(out[i].path, out[i + 1].path)

\* C21: getAutoNodeRecords returns every record exactly once, ordered by path
\* ignoring case, and returns the same list for every insertion order of the
\* same records
C21_ListDeterministic ==
  (pureCall.fn = "getAutoNodeRecords" /\ pureCall.done) =>
    /\ SameRecords(pureCall.values, pureCall.out)
    /\ OrderedByPath(pureCall.out)
    /\ \A p \in Reorderings(pureCall.values) :
         getAutoNodeRecords(p) = pureCall.out

\* ------------------------------------------------------------------------
\* Public operations: the create command and the operations of the settings
\* tab.  An operation runs from its call to its last await before
\* refreshAutoNode in one step; the refresh it ends with runs as an activation
\* of its own
\* ------------------------------------------------------------------------

\* getAbstractFileByPath(path) when it is a TFile, NoFile otherwise
fileAt(path) ==
  LET fs == {f \in Files : fileState[f] = "present" /\ filePath[f] = path}
  IN IF fs = {} THEN NoFile ELSE CHOOSE f \in fs : TRUE

\* What the caller of the operation gets
OpEnds(op, path, outcome) ==
  opResult' = [op |-> op, path |-> path, outcome |-> outcome]

\* The operation ends before it has changed anything
OpLeaves(op, path, outcome) ==
  /\ OpEnds(op, path, outcome)
  /\ UNCHANGED <<vaultVars, registryVars, timerVars, isUpdating, tasks,
                 notices, settled, ioFailuresLeft>>

\* ensureAutoNodeFrontmatter, lines 618-652: the text with the frontmatter
\* block written for the keyword
ensureFrontmatterText(text, keyword) ==
  LET m == frontmatterMatch(text)
  IN FrontmatterBlock(keyword) \o <<"NL">>
       \o trimStart(IF m = 0 THEN text ELSE sliceFrom(text, m + 1))

\* ensureMarkers, lines 654-671
ensureMarkersText(content, keyword) ==
  IF includes(content, <<AUTO_NODE_MARKER_START>>)
       /\ includes(content, <<AUTO_NODE_MARKER_END>>)
    THEN content
    ELSE trimEnd(content)
           \o join(<< <<>>, canonicalAnnotation(keyword),
                      <<AUTO_NODE_MARKER_START>>, <<"C">>,
                      <<AUTO_NODE_MARKER_END>>, <<>> >>, <<"NL">>)

\* A save that accepts every keyword
keywordMissing_never(keyword) == FALSE

\* if (!keyword), line 480
keywordMissing(keyword) == keyword = <<>>

\* saveAutoNodeConfig, lines 473-498.  The record is set (line 491) before
\* the awaits of lines 492-494: the read of ensureAutoNodeFrontmatter may
\* reject (outcome "Io"), and so may the save (outcome "Persistence")
SaveAutoNodeConfig(path, config) ==
  /\ changesLeft > 0
  /\ changesLeft' = changesLeft - 1
  /\ tasks[freeTask].pc = "idle"
  /\ LET f == fileAt(path)
         keyword == trim(config.keyword)
         rule == Rule(keyword, config.caseSensitive, config.matchWholeWord)
         recs == mapSet(nodeRecords, path, Record(path, rule))
     IN IF f = NoFile
          THEN OpLeaves("saveAutoNodeConfig", path, "NotFound")
        ELSE IF keywordMissing(keyword)
          THEN OpLeaves("saveAutoNodeConfig", path, "Configuration")
        ELSE
          \/ /\ ioFailuresLeft > 0
             /\ ioFailuresLeft' = ioFailuresLeft - 1
             /\ nodeRecords' = recs
             /\ OpEnds("saveAutoNodeConfig", path, "Io")
             /\ UNCHANGED <<vaultVars, settingsNodes, persisted, timerVars,
                            isUpdating, tasks, notices, settled>>
          \/ /\ fileText' = [fileText EXCEPT
                  ![f] = ensureMarkersText(
                           ensureFrontmatterText(fileText[f], keyword), keyword)]
             /\ frontmatter' = mapSet(frontmatter, f, rule)
             /\ OnVaultEvent
             /\ settled' = NoneSettled
             /\ settingsNodes' = recs
             /\ UNCHANGED <<fileState, filePath, vaultOrder, notices>>
             /\ \/ /\ persisted' = recs
                   /\ UNCHANGED ioFailuresLeft
                   /\ LET st == startNext(<<f>>, <<>>, {}, recs, <<>>, isUpdating,
                                          NoneSettled)
                      IN /\ tasks' = [disturbed(tasks) EXCEPT ![freeTask] = st.task]
                         /\ nodeRecords' = st.recs
                         /\ isUpdating' = st.updating
                   /\ OpEnds("saveAutoNodeConfig", path, "ok")
                \/ /\ ioFailuresLeft > 0
                   /\ ioFailuresLeft' = ioFailuresLeft - 1
                   /\ persisted' = persisted
                   /\ nodeRecords' = recs
                   /\ tasks' = disturbed(tasks)
                   /\ UNCHANGED isUpdating
                   /\ OpEnds("saveAutoNodeConfig", path, "Persistence")
  /\ UNCHANGED <<pureVars, unloaded>>

\* renameAutoNodeFile, lines 500-555; the rename event of renameFile runs the
\* rename handler (lines 110-117), whose save has written the snapshot when
\* the save of line 551 fails
\* Mutant of renamedRecord: the record keeps the path it had
renamedRecord_keepPath(record, normalized) == record

\* The record renameAutoNodeFile stores at the new path, lines 544-549
renamedRecord(record, normalized) == [record EXCEPT !.path = normalized]

RenameAutoNodeFile(currentPath, desiredPath) ==
  /\ changesLeft > 0
  /\ changesLeft' = changesLeft - 1
  /\ LET f == fileAt(currentPath)
     IN IF currentPath \notin DOMAIN nodeRecords
          THEN OpLeaves("renameAutoNodeFile", currentPath, "Unknown")
        ELSE IF f = NoFile
          THEN OpLeaves("renameAutoNodeFile", currentPath, "NotFound")
        ELSE IF trim(desiredPath) = <<>>
          THEN OpLeaves("renameAutoNodeFile", currentPath, "Configuration")
        ELSE IF desiredPath = currentPath
          THEN OpLeaves("renameAutoNodeFile", currentPath, "ok")
        ELSE IF fileAt(desiredPath) # NoFile
          THEN OpLeaves("renameAutoNodeFile", currentPath, "Conflict")
        ELSE
          LET record == nodeRecords[currentPath]
              handled == IF unloaded THEN nodeRecords
                         ELSE renameAutoNodeRecord(currentPath, desiredPath,
                                                   nodeRecords).recs
              next == mapSet(mapDelete(handled, currentPath), desiredPath,
                             renamedRecord(record, desiredPath))
          IN /\ filePath' = [filePath EXCEPT ![f] = desiredPath]
             /\ OnVaultEvent
             /\ settled' = NoneSettled
             /\ tasks' = disturbed(tasks)
             /\ nodeRecords' = next
             /\ settingsNodes' = next
             /\ \/ /\ persisted' = next
                   /\ UNCHANGED ioFailuresLeft
                   /\ OpEnds("renameAutoNodeFile", currentPath, "ok")
                \/ /\ ioFailuresLeft > 0
                   /\ ioFailuresLeft' = ioFailuresLeft - 1
                   /\ persisted' = IF unloaded THEN persisted ELSE next
                   /\ OpEnds("renameAutoNodeFile", currentPath, "Persistence")
             /\ UNCHANGED <<fileState, fileText, frontmatter, vaultOrder,
                            isUpdating, notices>>
  /\ UNCHANGED <<pureVars, unloaded>>

\* deleteAutoNode, lines 557-564; the delete event of vault.trash runs the
\* delete handler (lines 101-108)
DeleteAutoNode(path) ==
  /\ changesLeft > 0
  /\ changesLeft' = changesLeft - 1
  /\ LET f == fileAt(path)
         r == removeAutoNodeRecord(path, nodeRecords)
     IN /\ IF f # NoFile
             THEN /\ fileState' = [fileState EXCEPT ![f] = "deleted"]
                  /\ vaultOrder' = withoutFile(vaultOrder, f)
                  /\ frontmatter' = mapDelete(frontmatter, f)
                  /\ OnVaultEvent
                  /\ settled' = NoneSettled
                  /\ tasks' = disturbed(tasks)
             ELSE UNCHANGED <<fileState, vaultOrder, frontmatter, timerVars,
                              settled, tasks>>
        /\ nodeRecords' = r.recs
        /\ SaveSettings(r.saves)
        /\ isUpdating' = isUpdating \ {path}
        /\ OpEnds("deleteAutoNode", path, "ok")
  /\ UNCHANGED <<filePath, fileText, notices>>
  /\ UNCHANGED <<pureVars, unloaded>>

\* refreshAutoNodeByPath, lines 566-572
RefreshAutoNodeByPath(path) ==
  /\ changesLeft > 0
  /\ changesLeft' = changesLeft - 1
  /\ tasks[freeTask].pc = "idle"
  /\ LET f == fileAt(path)
     IN IF f = NoFile
          THEN OpLeaves("refreshAutoNodeByPath", path, "NotFound")
        ELSE LET st == startNext(<<f>>, <<>>, {}, nodeRecords, <<>>,
                                 isUpdating, settled)
             IN /\ tasks' = [tasks EXCEPT ![freeTask] = st.task]
                /\ nodeRecords' = st.recs
                /\ isUpdating' = st.updating
                /\ SaveSettings(st.saves)
                /\ OpEnds("refreshAutoNodeByPath", path, "ok")
                /\ UNCHANGED <<vaultVars, timerVars, notices, settled>>
  /\ UNCHANGED <<pureVars, unloaded>>

\* handleCreateAutoNode, lines 186-256, for the note name q and the answers
\* "no" to both questions: answer is what the user typed as the keyword, of
\* which PromptModal gives the trimmed text or null (line 862)
HandleCreateAutoNode(answer) ==
  /\ changesLeft > 0
  /\ changesLeft' = changesLeft - 1
  /\ tasks[freeTask].pc = "idle"
  /\ fileState["fA"] # "deleted"
  /\ IF trim(answer) = <<>>
       THEN OpLeaves("handleCreateAutoNode", PathA, "cancelled")
       ELSE LET config == Rule(trim(answer), FALSE, FALSE)
                existing == fileAt(PathA)
                recs == mapSet(nodeRecords, PathA, Record(PathA, config))
                st == startNext(<<"fA">>, <<>>, {}, recs, <<>>, isUpdating,
                                NoneSettled)
            IN /\ IF existing # NoFile
                    THEN /\ fileText' = [fileText EXCEPT
                              !["fA"] = ensureMarkersText(
                                          ensureFrontmatterText(fileText["fA"],
                                                                config.keyword),
                                          config.keyword)]
                         /\ UNCHANGED <<fileState, vaultOrder>>
                    ELSE /\ fileText' = [fileText EXCEPT
                              !["fA"] = buildInitialContent(config)]
                         /\ fileState' = [fileState EXCEPT !["fA"] = "present"]
                         /\ vaultOrder' = Append(vaultOrder, "fA")
               /\ frontmatter' = mapSet(frontmatter, "fA", config)
               /\ OnVaultEvent
               /\ settled' = NoneSettled
               /\ SaveSettings(<<recs>>)
               /\ tasks' = [disturbed(tasks) EXCEPT ![freeTask] = st.task]
               /\ nodeRecords' = st.recs
               /\ isUpdating' = st.updating
               /\ OpEnds("handleCreateAutoNode", PathA, "ok")
               /\ UNCHANGED <<filePath, notices>>
  /\ UNCHANGED <<pureVars, unloaded>>

\* Keywords typed by the user: a word, only a space, nothing
TypedKeywords == { <<"z">>, <<"SP">>, <<>> }

\* Paths the operations are called with: of a registered note, of a note that
\* is not registered yet, and one at which there is no note
CalledPaths == { PathN, PathM, SparePath }

\* The targets renameAutoNodeFile is called with
RenameTargets == {SparePath, PathM}

OpsNext ==
  \/ \E path \in CalledPaths, k \in TypedKeywords :
       SaveAutoNodeConfig(path, Rule(k, FALSE, FALSE))
  \/ \E cur \in CalledPaths, desired \in RenameTargets :
       RenameAutoNodeFile(cur, desired)
  \/ \E path \in CalledPaths : DeleteAutoNode(path)
  \/ \E path \in CalledPaths : RefreshAutoNodeByPath(path)
  \/ \E answer \in TypedKeywords : HandleCreateAutoNode(answer)

NextOps == NextQuiet \/ OpsNext

\* The frontmatter of fM declares the keyword as the empty list
ListRuleM == Rule(EmptyList, FALSE, FALSE)

\* The operations are called in the plain scenario, fN being merged, with
\* and without the plain note, and in a scenario in which the frontmatter of
\* fM declares an empty list.  The settings that were saved may hold, besides
\* the record of fN, the record of a note that does not exist any more
\* (loadSettings, lines 409-415)
OpsScenarios ==
  { sc \in Scenarios : /\ sc.n = PlainRuleN
                       /\ sc.textN = MergedPlaceholderText
                       /\ sc.textA \in { <<"z", "NL">>, <<>> } }
  \cup { [n |-> PlainRuleN, m |-> ListRuleM,
          textN |-> MergedPlaceholderText, textA |-> <<>>] }

InitOps ==
  /\ \E sc \in OpsScenarios :
       \/ SysInitIn(sc)
       \/ SysInitWith(sc, loadSettings(<<Record(PathN, sc.n),
                                         Record(SparePath, sc.n)>>))
  /\ changesLeft = MaxChanges
  /\ ioFailuresLeft = MaxIoFailures
  /\ unloaded = FALSE
  /\ opResult = NoOp
  /\ PureIdle

SpecOps == InitOps /\ [][NextOps]_vars

\* Outcomes with which an operation raises an error to its caller
Errors ==
  {"NotFound", "Configuration", "Conflict", "Unknown", "Persistence", "Io"}

\* C22: saveAutoNodeConfig called with a keyword that is empty or only
\* whitespace raises an error to the caller and leaves the registry, the
\* persisted snapshot and the text of every document unchanged
C22_EmptyKeywordRejected ==
  [][\A path \in CalledPaths, k \in TypedKeywords :
       (trim(k) = <<>> /\ SaveAutoNodeConfig(path, Rule(k, FALSE, FALSE)))
         => /\ opResult'.outcome \in Errors
            /\ UNCHANGED <<nodeRecords, settingsNodes, persisted, fileText>>]_vars

\* A save with a keyword of only whitespace, at the path of a document, was
\* rejected
C22_Witness ==
  /\ opResult.op = "saveAutoNodeConfig"
  /\ opResult.outcome = "Configuration"

\* One of the operations that take a path is called with this path
CalledAt(path) ==
  \/ \E k \in TypedKeywords : SaveAutoNodeConfig(path, Rule(k, FALSE, FALSE))
  \/ \E desired \in RenameTargets : RenameAutoNodeFile(path, desired)
  \/ RefreshAutoNodeByPath(path)
  \/ DeleteAutoNode(path)

\* C23: every public operation called with a path at which no document
\* exists (saveAutoNodeConfig, renameAutoNodeFile, refreshAutoNodeByPath,
\* deleteAutoNode) raises an error to the caller and leaves the registry, the
\* in-progress set and the persisted snapshot unchanged
C23_NotFoundSurfaces ==
  [][\A path \in CalledPaths :
       (fileAt(path) = NoFile /\ CalledAt(path))
         => /\ opResult'.outcome \in Errors
            /\ UNCHANGED <<nodeRecords, isUpdating, persisted>>]_vars

\* The rename, called for a target that another file occupies, raises an
\* error and changes neither the registry, the persisted snapshot nor a
\* document
ConflictLeavesAll(currentPath, desiredPath) ==
  (fileAt(desiredPath) # NoFile /\ desiredPath # currentPath)
    => /\ opResult'.outcome \in Errors
       /\ UNCHANGED <<nodeRecords, settingsNodes, persisted, vaultVars>>

\* When the rename raises, the record at currentPath is as it was and the
\* target path has not got a record
RaiseLeavesRecord(currentPath, desiredPath) ==
  opResult'.outcome \in Errors
    => /\ currentPath \in DOMAIN nodeRecords
            => /\ currentPath \in DOMAIN nodeRecords'
               /\ nodeRecords'[currentPath] = nodeRecords[currentPath]
       /\ desiredPath \notin DOMAIN nodeRecords
            => desiredPath \notin DOMAIN nodeRecords'

\* C24: renameAutoNodeFile whose target path is occupied by another file
\* raises an error and leaves registry, persisted snapshot and documents
\* unchanged; whenever renameAutoNodeFile raises, the registry still holds
\* the record at currentPath unchanged and no record at the target path
C24_RenameStrict ==
  [][\A currentPath \in CalledPaths, desiredPath \in RenameTargets :
       RenameAutoNodeFile(currentPath, desiredPath)
         => /\ ConflictLeavesAll(currentPath, desiredPath)
            /\ RaiseLeavesRecord(currentPath, desiredPath)]_vars

\* A write of the settings to the store fails in this step (a failing read
\* or write of a note shows a notice, lines 179-182, or ends the operation
\* with the error of the read)
StoreWriteFails ==
  /\ ioFailuresLeft' < ioFailuresLeft
  /\ notices' = notices
  /\ ~(opResult' # opResult /\ opResult'.outcome = "Io")

\* C25: for every registry mutation (upsert, remove, rename, lazy resolve,
\* saveAutoNodeConfig, renameAutoNodeFile) a failing write of the settings
\* raises no error to the caller of the mutation, and the updated in-memory
\* registry is kept
C25_PersistenceNotFatal ==
  [][StoreWriteFails
       => /\ opResult' # opResult => opResult'.outcome \notin Errors
          /\ nodeRecords' = settingsNodes']_vars

\* C26: in every reachable state every record of the registry has a
\* non-empty keyword, and containsKeyword is never evaluated with an empty
\* keyword (a refresh that awaits a note it scans evaluates containsKeyword
\* with its rule when the read returns)
C26_KeywordNeverEmpty ==
  /\ \A path \in DOMAIN nodeRecords : nodeRecords[path].keyword # <<>>
  /\ \A t \in TaskIds : tasks[t].pc = "scan" => tasks[t].rule.keyword # <<>>

\* ------------------------------------------------------------------------
\* The markers and the annotations after a merge
\* ------------------------------------------------------------------------

IsMarker(t) == IsStartMarker(t) \/ IsEndMarker(t)

\* Well-formed marker pairs of a text: the start markers whose next marker is
\* an end marker
markerPairs(s) ==
  Cardinality({i \in 1..Len(s) :
                 /\ IsStartMarker(s[i])
                 /\ \E j \in (i + 1)..Len(s) :
                      /\ IsEndMarker(s[j])
                      /\ \A k \in (i + 1)..(j - 1) : ~IsMarker(s[k])})

\* The text has the canonical start marker and, from the first one on, the
\* marker, a blank line, the generated body, a blank line and the end marker
HasSection(s, generated) ==
  LET a == indexOf(s, AUTO_NODE_MARKER_START)
      section == <<AUTO_NODE_MARKER_START, "NL", "NL">> \o generated
                   \o <<"NL", "NL", AUTO_NODE_MARKER_END>>
  IN /\ a # 0
     /\ Len(s) >= a + Len(section) - 1
     /\ SubSeq(s, a, a + Len(section) - 1) = section

AnnotateKeywords == { <<"x">>, <<"z">>, <<"x", "CL", "z">> }

\* The markers, a newline, the canonical annotation of each keyword and two
\* legacy annotations
AnnotateSegments ==
  { <<"NL">>, <<AUTO_NODE_MARKER_START>>, <<AUTO_NODE_MARKER_END>>,
    <<"ka", "x", "KZ">>, <<"ka", "SP", "x", "CL", "z", "KZ">> }
  \cup { canonicalAnnotation(k) : k \in AnnotateKeywords }

\* Longest text of annotations, in segments
MaxAnnotated == 2

AnnotateTexts ==
  UNION { {concat(f) : f \in [1..n -> AnnotateSegments]} : n \in 0..MaxAnnotated }

AnnotateInit ==
  pureCall \in {[fn |-> "merge", text |-> t, keyword |-> k, out |-> <<>>,
                 done |-> FALSE] :
                  t \in AnnotateTexts, k \in AnnotateKeywords}

InitAnnotate == AnnotateInit /\ MergeIdle /\ SysQuiet

\* mergeGeneratedSection(current, generated, record.keyword), line 343
AnnotateCall ==
  /\ pureCall.fn = "merge"
  /\ ~pureCall.done
  /\ pureCall' = [pureCall EXCEPT
                    !.out = mergeGeneratedSection(pureCall.text, Placeholder,
                                                  pureCall.keyword),
                    !.done = TRUE]
  /\ UNCHANGED <<mergeVars, sysVars>>

AnnotateNext == AnnotateCall

SpecAnnotate == InitAnnotate /\ [][AnnotateNext]_vars

\* The keyword annotation comments of a text, as the regex of line 401 finds
\* them
annotationsOf(s) ==
  { SubSeq(s, i, i + annotationEnd(sliceFrom(s, i)) - 1) :
      i \in {k \in 1..Len(s) : /\ s[k] \in AnnotationOpeners
                               /\ annotationEnd(sliceFrom(s, k)) # 0} }

\* C28: after mergeGeneratedSection(text, body, k) every keyword annotation
\* comment of the result is in the canonical form and carries the keyword k,
\* also when the text carried an annotation written for an earlier keyword
\* and when the keyword contains a colon
C28_AnnotationCurrent ==
  pureCall.done =>
    \A a \in annotationsOf(pureCall.out) :
      a = canonicalAnnotation(pureCall.keyword)

\* Number of the tokens of s that are in the set
tokensIn(s, set) == Cardinality({i \in 1..Len(s) : s[i] \in set})

\* The text has no marker in another spelling than the canonical one
CanonicalMarkers(s) == tokensIn(s, {"s", "e"}) = 0

\* Every keyword annotation of the text is "<!-- Auto-node keyword: k -->"
\* for a keyword k without a colon and without spaces around it
CanonicalAnnotations(s) ==
  \A a \in annotationsOf(s) :
    LET k == SubSeq(a, 3, Len(a) - 2)
    IN /\ Len(a) >= 4
       /\ a = canonicalAnnotation(k)
       /\ "CL" \notin Range(k)
       /\ trim(k) = k

\* Every variant of a marker is rewritten to the canonical marker, the
\* results of the merge have no variant, and normalizeMarkers is idempotent
NormalizesMarkers ==
  LET once == normalizeMarkers(mergePrev)
  IN /\ tokensIn(once, {AUTO_NODE_MARKER_START})
          = tokensIn(mergePrev, {AUTO_NODE_MARKER_START, "s"})
     /\ tokensIn(once, {AUTO_NODE_MARKER_END})
          = tokensIn(mergePrev, {AUTO_NODE_MARKER_END, "e"})
     /\ CanonicalMarkers(once)
     /\ CanonicalMarkers(mergeOut)
     /\ normalizeMarkers(once) = once

afterAppend(current) ==
  appendMarkers(ensureIntroSection(normalizeMarkers(current)))

\* The condition of the defensive return, line 389
Defensive(next) ==
  LET startIndex == indexOf(next, AUTO_NODE_MARKER_START)
      endIndex == indexOf(next, AUTO_NODE_MARKER_END)
  IN startIndex = 0 \/ endIndex = 0 \/ endIndex < startIndex

\* C30: when, after the append step, the first end marker precedes the first
\* start marker or a marker is missing, mergeGeneratedSection returns its
\* input text unchanged
C30_DefensiveUnchanged ==
  (mergeCount >= 1 /\ Defensive(afterAppend(mergePrev))) => mergeOut = mergePrev

\* ------------------------------------------------------------------------
\* The intro block after a merge
\* ------------------------------------------------------------------------

\* The text has the intro block directly after its leading frontmatter block,
\* at the top when it has none
IntroInPlace(s) ==
  LET m == frontmatterMatch(s)
  IN /\ Len(s) >= m + Len(AUTO_NODE_INTRO)
     /\ SubSeq(s, m + 1, m + Len(AUTO_NODE_INTRO)) = AUTO_NODE_INTRO

\* The merge of this text inserts the intro block
InsertsIntro(current) == ~includes(normalizeMarkers(current), IntroHeading)

\* C31: after mergeGeneratedSection the intro heading is present, directly
\* after the leading frontmatter block when there is one and at the top
\* otherwise; when the input has the heading the intro step leaves the text
\* unchanged; over repeated merges the intro block is inserted at most once
C31_IntroBlock ==
  mergeCount >= 1 =>
    /\ includes(mergeOut, IntroHeading)
    /\ IntroInPlace(mergeOut)
    /\ ~InsertsIntro(mergePrev) =>
         ensureIntroSection(normalizeMarkers(mergePrev))
           = normalizeMarkers(mergePrev)
    /\ mergeCount = 2 => ~(InsertsIntro(mergeInput) /\ InsertsIntro(mergePrev))

\* ------------------------------------------------------------------------
\* The in-progress set
\* ------------------------------------------------------------------------

\* C32: teardown clears the in-progress markers. After onunload isUpdating is
\* empty, also when a refresh was in flight when onunload ran
C32_TeardownClearsInProgress == [][Onunload => isUpdating' = {}]_vars

\* ------------------------------------------------------------------------
\* The order of a pass
\* ------------------------------------------------------------------------

\* C33: refreshAllAutoNodes refreshes the auto-nodes one after another, in
\* registry list order, that is ascending by path ignoring case, whatever
\* order the vault enumerates its notes in: the notes an activation has
\* refreshed so far, in the order in which it started them, are in that order,
\* and the one it is refreshing is the last of them
C33_PassInRegistryOrder ==
  \A t \in TaskIds :
    LET done == tasks[t].done
    IN /\ \A i \in 1..(Len(done) - 1) :
            lessEqIgnoringCase(filePath[done[i]], filePath[done[i + 1]])
       /\ tasks[t].pc # "idle" => tasks[t].file = done[Len(done)]

\* ------------------------------------------------------------------------
\* The registry and the persisted snapshot
\* ------------------------------------------------------------------------

\* C34: every operation that changes the registry issues a save of the
\* snapshot built from the registry after the change (settings.nodes is that
\* snapshot), so that, as long as no write has failed, the persisted nodes
\* mapping equals the registry
C34_WriteThrough ==
  /\ [][nodeRecords' # nodeRecords => settingsNodes' = nodeRecords']_vars
  /\ [](ioFailuresLeft = MaxIoFailures => persisted = nodeRecords)

\* ---------------------------------------------------------------------
\* Executions of refreshAutoNode in flight
\* ---------------------------------------------------------------------

\* C35: in every interleaving of timer-fired passes, explicit refreshes,
\* deleteAutoNode and vault events, at most one execution of refreshAutoNode
\* for a given path is between its guard check and its completion
C35_PerPathExclusion ==
  \A t, u \in InFlight :
    t # u => filePath[tasks[t].file] # filePath[tasks[u].file]

\* C36: a path is in isUpdating only while a refresh that added it is in
\* flight; it is removed when that refresh ends, normally or by an exception,
\* also when the note was renamed or deleted meanwhile; hence with no refresh
\* in flight the set is empty
C36_MarkerReleased ==
  isUpdating \subseteq {tasks[t].locked : t \in InFlight}

\* C37: the timer callback does not start refreshAllAutoNodes while a pass
\* started earlier is still in flight, so at most one full pass is in flight
C37_NoOverlappingPasses ==
  [][(\E i \in TimerIds : TimerFire(i)) => InFlight = {}]_vars

\* ---------------------------------------------------------------------
\* The two states of the scheduler
\* ---------------------------------------------------------------------

\* Pending: refreshTimeout names a timer; Idle: it is null
Pending == refreshTimeout # NoTimer

\* C38: at most one debounce timer is armed, and the scheduler is Pending
\* exactly when a timer is armed, which is then the one refreshTimeout names;
\* the timer callback makes the scheduler Idle before the pass begins, so a
\* change signal that arrives during the pass arms a new timer
C38_SchedulerState ==
  /\ [](/\ Cardinality(ArmedTimers) <= 1
        /\ Pending <=> ArmedTimers # {}
        /\ Pending => timers[refreshTimeout] # Off)
  /\ [][/\ (\E i \in TimerIds : TimerFire(i)) => ~Pending'
        /\ (Signal /\ InFlight # {} /\ ~unloaded) =>
             /\ Pending'
             /\ timers'[refreshTimeout'] = DefaultDelay]_vars

\* A change signal arrived during a pass and armed a new timer
C38_Witness ==
  /\ InFlight # {}
  /\ ~unloaded
  /\ Pending
  /\ timers[refreshTimeout] = DefaultDelay
  /\ changesLeft < MaxChanges

\* ---------------------------------------------------------------------
\* Keys of the registry
\* ---------------------------------------------------------------------

\* C39: every entry of the registry is stored under the path its record
\* names, so that no two records share a path; this holds across upsert,
\* remove, the rename event, renameAutoNodeFile, lazy resolve and loadSettings
C39_KeyIsPath ==
  /\ \A key \in DOMAIN nodeRecords : nodeRecords[key].path = key
  /\ \A a, b \in DOMAIN nodeRecords :
       nodeRecords[a].path = nodeRecords[b].path => a = b

\* renameAutoNodeFile has moved the record of x.md to another path, next to
\* the record of a second auto-node
C39_Witness ==
  /\ opResult.op = "renameAutoNodeFile"
  /\ opResult.outcome = "ok"
  /\ opResult.path = PathN
  /\ PathN \notin DOMAIN nodeRecords
  /\ Cardinality(DOMAIN nodeRecords) >= 2

\* ---------------------------------------------------------------------
\* Every change signal is served
\* ---------------------------------------------------------------------

\* The timer i has run down and its callback can run
TimerDue(i) == timers[i] = 0 /\ tasks[freeTask].pc = "idle"

\* The refresh t awaits a read or a write of a note that is gone: it rejects
AwaitsGone(t) ==
  /\ tasks[t].pc # "idle"
  /\ fileState[awaitedFile(tasks[t])] # "present"

\* Weak fairness of the clock, of the timer callbacks, of the reads and writes
\* that are pending and of the rejections of reads of notes that are gone,
\* each written with the condition under which the step can be taken
ServeFairness ==
  /\ []<>(\A i \in TimerIds : timers[i] <= 0) \/ []<><<Tick>>_vars
  /\ \A i \in TimerIds : []<>(~TimerDue(i)) \/ []<><<TimerFire(i)>>_vars
  /\ \A t \in TaskIds : []<>(~TaskReady(t)) \/ []<><<TaskStep(t)>>_vars
  /\ \A t \in TaskIds : []<>(~AwaitsGone(t)) \/ []<><<RefreshThrows(t)>>_vars

\* Changes from outside are not forced and the plugin is not unloaded
SpecServe == Init /\ [][Next]_vars /\ ServeFairness

\* C40: under fairness every change signal is served. A notification arms
\* the timer, also while a pass is in flight, and when signals stop for the
\* debounce delay and the plugin stays loaded, the timer fires and a pass
\* starts after that signal
C40_SignalServed ==
  /\ [][(Signal /\ ~unloaded) => Pending']_vars
  /\ Pending ~> ~Pending

\* The pass for a signal that arrived while a pass was in flight has started
\* next to that pass, the debounce delay after the signal
C40_Witness ==
  /\ Cardinality(InFlight) = 2
  /\ ~Pending
  /\ sinceSignal = DefaultDelay
  /\ changesLeft < MaxChanges

====
